---- MODULE Spec2Model ----
(***************************************************************************)
(* OIC Digital Economy Index: the spreadsheet Normalizer and store rebuild *)
(* of convert_excel_to_json.py and the Store Loader of src/load_to_db.py,  *)
(* as a state machine over the input spreadsheet, the interchange JSON     *)
(* file and the SQLite store.                                              *)
(*                                                                         *)
(* Numbers: a spreadsheet score x is held as the integer 1000*x, so that   *)
(* round(x), round(x, 2) and int(x) are real conversions.  Ranks, ids and  *)
(* the integer fields of the output are plain integers.                    *)
(***************************************************************************)
EXTENDS Integers, Sequences, FiniteSets, TLC

\* Bounds of the model.
MaxRows == 2
MaxLoads == 2
MaxEdits == 1
MaxLeague == 21
MaxChunks == 3

(***************************************************************************)
(* Schema catalog (convert_excel_to_json.py, PILLAR_STRUCTURE).  A Python  *)
(* dict iterates in insertion order, so the catalog is a sequence.         *)
(***************************************************************************)
PILLAR_STRUCTURE ==
  <<
   [pillar_name |-> "First Pillar: Institutions",
    dimension |-> "Digital Foundation",
    pillar_short |-> "Institutions",
    total_col |-> "1",
    sub_cols |-> <<
        <<"1.1.1", "Political Environment">>,
        <<"1.1.2", "Political Stability and Security">>,
        <<"1.1.3", "Government Effectiveness">>,
        <<"1.1", "Voice and Accountability">>,
        <<"1.2.1", "Regulatory Environment">>,
        <<"1.2.2", "Regulatory Quality">>,
        <<"1.2.3", "Rule of Law">>,
        <<"1.2", "Control of Corruption">>,
        <<"1.3.1", "Technology Governance">>,
        <<"1.3.2", "Secure Internet Servers">>,
        <<"1.3.3", "E-Security">>,
        <<"1.3.4", "Online Shopping">>,
        <<"1.3.5", "ICT Regulatory Environment">>,
        <<"1.3.6", "Regulation of Emerging Technologies">>,
        <<"1.3.7", "E-commerce Legislation">>,
        <<"1.3", "Protection of content privacy under the law">> >>],
   [pillar_name |-> "Second Pillar: Infrastructure",
    dimension |-> "Digital Foundation",
    pillar_short |-> "Infrastructure",
    total_col |-> "2",
    sub_cols |-> <<
        <<"2.1", "Access to ICT">>,
        <<"2.2", "Use of ICT">>,
        <<"2.3.1", "Technological Inclusion">>,
        <<"2.3.2", "E-Participation">>,
        <<"2.3.3", "Socioeconomic gap in the use of digital payments">>,
        <<"2.3.4", "Availability of local content online">>,
        <<"2.3.5", "Gender gap in internet use">>,
        <<"2.3", "Rural gap in the use of digital payments">>,
        <<"2.4", "Logistical Performance">> >>],
   [pillar_name |-> "Third Pillar: Workforce",
    dimension |-> "Digital Works",
    pillar_short |-> "Workforce",
    total_col |-> "3",
    sub_cols |-> <<
        <<"3.1", "Expenditure on education as a % of GDP">>,
        <<"3.2", "Knowledge-intensive employment %">>,
        <<"3.3", "ICT skills in the education system">> >>],
   [pillar_name |-> "Fourth Pillar: E-Government",
    dimension |-> "E-Government",
    pillar_short |-> "E-Government",
    total_col |-> "4",
    sub_cols |-> <<
        <<"4.1", "Government services online">>,
        <<"4.2", "Telecommunication Infrastructure">>,
        <<"4.3", "Human Capital Component">> >>],
   [pillar_name |-> "Fifth Pillar: Innovation",
    dimension |-> "Innovation",
    pillar_short |-> "Innovation",
    total_col |-> "5",
    sub_cols |-> <<
        <<"5.1", "Percentage of total R&D expenditure financed by the business sector">>,
        <<"5.2", "University-industry collaboration in R&D">>,
        <<"5.3", "Knowledge impact">>,
        <<"5.4", "Knowledge absorption">> >>],
   [pillar_name |-> "Sixth Pillar: Future Technologies",
    dimension |-> "Readiness in digital\nfor the citizen",
    pillar_short |-> "Future Technologies",
    total_col |-> "6",
    sub_cols |-> <<
        <<"6.1", "Adoption of emerging technologies">>,
        <<"6.2", "Investment in emerging technologies">>,
        <<"6.3", "Artificial Intelligence (AI) strategy">> >>],
   [pillar_name |-> "Seventh Pillar: Market Development and Sophistication",
    dimension |-> "Market Development and Sophistication",
    pillar_short |-> "Market Development\nand Sophistication",
    total_col |-> "7",
    sub_cols |-> <<
        <<"7.1", "Financing of startups and ease of access">>,
        <<"7.2", "Domestic credit to private sector, % of GDP">>,
        <<"7.3", "Diversification of local industry">> >>],
   [pillar_name |-> "Eighth Pillar: Financial Market Development",
    dimension |-> "Financial Market Development",
    pillar_short |-> "Financial Market\nDevelopment",
    total_col |-> "8",
    sub_cols |-> <<
        <<"8.1.1", "FinTech and Financial Inclusion">>,
        <<"8.1.2", "Percentage of population (age 15+) who own bank accounts">>,
        <<"8.1.3", "Percentage (age 15+) who own a debit or credit card">>,
        <<"8.1", "Percentage (age 15+) who have made or received a digital payment">>,
        <<"8.2", "Market capitalization as a % of GDP">> >>],
   [pillar_name |-> "Ninth Pillar: Sustainable Development Goals",
    dimension |-> "Sustainable Development",
    pillar_short |-> "Sustainable\nDevelopment",
    total_col |-> "9",
    sub_cols |-> <<
        <<"9.1", "Goal 1: No Poverty">>,
        <<"9.2", "Goal 2: Zero Hunger">>,
        <<"9.3", "Goal 3: Good Health and Well-being">>,
        <<"9.4", "Goal 4: Quality Education">>,
        <<"9.5", "Goal 8: Decent Work and Economic Growth">>,
        <<"9.6", "Goal 9: Industry, Innovation and Infrastructure">>,
        <<"9.7", "Goal 17: Partnerships for the Goals">> >>]
  >>

NumPillars == Len(PILLAR_STRUCTURE)

(***************************************************************************)
(* Spreadsheet cells.  pandas reads a cell as a number, as NaN (an empty   *)
(* cell) or as text.                                                       *)
(***************************************************************************)
Num(v) == [k |-> "num", v |-> v]
NaN == [k |-> "nan", v |-> 0]
Text == [k |-> "text", v |-> 0]

\* safe_float: float(v), 0.0 for None, NaN and anything float() rejects.
safe_float(c) == IF c.k = "num" THEN c.v ELSE 0

\* int(round(x)): Python 3 rounds half to even.  x in thousandths, result
\* a plain integer.
RoundInt(x) ==
  LET q == x \div 1000
      r == x % 1000
  IN  IF r < 500 THEN q
      ELSE IF r > 500 THEN q + 1
      ELSE IF q % 2 = 0 THEN q ELSE q + 1

\* The score rounded to a whole number, as the summaries are.
RoundToWhole(x) == 1000 * RoundInt(x)

\* round(x, 2): x and the result in thousandths.  (The model's cells have
\* no third decimal of exactly 5, where the result depends on the binary
\* representation of x.)
Round2(x) ==
  LET q == x \div 10
      r == x % 10
  IN  IF r < 5 THEN 10 * q
      ELSE IF r > 5 THEN 10 * (q + 1)
      ELSE IF q % 2 = 0 THEN 10 * q ELSE 10 * (q + 1)

\* int(x) of a non-negative float: truncation.
IntOf(x) == x \div 1000

\* str(...).strip() on the Country cells of the model.  "" is the empty
\* cell, which pandas reads as NaN: str(nan) is "nan".
Strip(s) ==
  CASE s = "A " -> "A"
    [] s = "" -> "nan"
    [] OTHER -> s

(***************************************************************************)
(* Input rows.  A row carries the Country and Year cells, the ADEI and     *)
(* Rank cells, the cell of pillar total column "1" (P1), the cell shared   *)
(* by the total columns "2".."9" (PX), the cell of sub-indicator column    *)
(* "1.1.1" (S1) and the cell shared by the other sub-indicator columns     *)
(* (SX).                                                                   *)
(***************************************************************************)
Row(c, y, adei, rank, p1, px, s1, sx) ==
  [Country |-> c, Year |-> y, ADEI |-> adei, Rank |-> rank,
   P1 |-> p1, PX |-> px, S1 |-> s1, SX |-> sx]

RawRows ==
  { Row("A",  2, Num(90000), Num(1000), Num(80250), Num(50000), Num(12344), Num(40000)),
    Row("B",  2, Num(74500), Num(2000), Num(60500), Num(70000), NaN,        Num(55556)),
    Row("A ", 1, Num(74500), Num(3000), Num(60500), Num(70004), Text,       Num(30000)),
    Row("C",  2, Text,       NaN,       Num(90000), Num(70000), Num(99999), NaN),
    Row("C",  1, NaN,        Num(2000), NaN,        Text,       Num(1000),  Num(1000)),
    Row("A",  1, Num(60000), Num(4000), Num(70000), Num(20000), Num(5000),  Text),
    Row("",   2, Num(50000), Num(5000), Num(40000), Num(30000), Num(20000), Num(10000)) }

\* row.get(col, 0) / row[col]
RowGet(row, col) ==
  CASE col = "ADEI" -> row.ADEI
    [] col = "Rank" -> row.Rank
    [] col = "1" -> row.P1
    [] col \in {"2", "3", "4", "5", "6", "7", "8", "9"} -> row.PX
    [] col = "1.1.1" -> row.S1
    [] OTHER -> row.SX

RECURSIVE SeqsUpTo(_, _)
SeqsUpTo(S, n) ==
  IF n = 0 THEN {<<>>}
  ELSE LET shorter == SeqsUpTo(S, n - 1)
       IN  shorter \cup {Append(s, x) : s \in shorter, x \in S}

\* The spreadsheets of the model: with or without a Year column.
Tables ==
  [hasYear : BOOLEAN, rows : SeqsUpTo(RawRows, MaxRows) \ {<<>>}]

SetMax(S) == CHOOSE m \in S : \A x \in S : x <= m
SetMin(S) == CHOOSE m \in S : \A x \in S : m <= x

\* df.sort_values("Year", ascending=False): rows of the greatest year first,
\* rows of one year in their table order (numpy sorts arrays this short by
\* insertion, which is stable).
RECURSIVE SortYearDesc(_)
SortYearDesc(rows) ==
  IF rows = <<>> THEN <<>>
  ELSE LET m == SetMax({rows[i].Year : i \in DOMAIN rows})
       IN  SelectSeq(rows, LAMBDA r : r.Year = m)
             \o SortYearDesc(SelectSeq(rows, LAMBDA r : r.Year # m))

\* drop_duplicates(subset="Country", keep="first") on the raw Country cell.
RECURSIVE DropDuplicates(_, _)
DropDuplicates(rows, seen) ==
  IF rows = <<>> THEN <<>>
  ELSE IF Head(rows).Country \in seen
       THEN DropDuplicates(Tail(rows), seen)
       ELSE <<Head(rows)>>
              \o DropDuplicates(Tail(rows), seen \cup {Head(rows).Country})

\* Lines 168-175: the data frame after the Year de-duplication.
ReadExcel(t) ==
  IF t.hasYear THEN DropDuplicates(SortYearDesc(t.rows), {}) ELSE t.rows

\* df[col].rank(ascending=False, method="min") for row i: 1 + the number of
\* rows with a strictly greater value.  (Defined where RankFails is false:
\* an all-text column ranks equal strings equally.)
RankMin(df, col, i) ==
  1 + Cardinality({j \in DOMAIN df :
        RowGet(df[j], col).v > RowGet(df[i], col).v})

\* Line 186 raises: .astype(int) on a rank column holding NaN (the rank of a
\* NaN cell is NaN), or rank() comparing text with numbers.
RankFails(df, col) ==
  \/ \E i \in DOMAIN df : RowGet(df[i], col).k = "nan"
  \/ /\ \E i \in DOMAIN df : RowGet(df[i], col).k = "text"
     /\ \E i \in DOMAIN df : RowGet(df[i], col).k = "num"

\* Line 204: the rank of the first row of df whose Country equals the row's.
LookupRank(df, col, i) ==
  LET first == SetMin({j \in DOMAIN df : df[j].Country = df[i].Country})
  IN  RankMin(df, col, first)

\* The rank read from the ADEI column instead of the Rank column.
AdeiRankFromAdei(row) == IF row.ADEI.k = "num" THEN IntOf(row.ADEI.v) ELSE 0

\* Line 197: int(row["Rank"]) unless the cell is NaN.  (The Rank cells of the
\* model are numbers or NaN; int() of text would raise.)
AdeiRank(row) == IF row.Rank.k = "num" THEN IntOf(row.Rank.v) ELSE 0

DimensionSummary(df, i) ==
  [p \in 1..NumPillars |->
     [dimension |-> PILLAR_STRUCTURE[p].dimension,
      pillar |-> PILLAR_STRUCTURE[p].pillar_short,
      value |-> RoundInt(safe_float(RowGet(df[i], PILLAR_STRUCTURE[p].total_col))),
      rank |-> LookupRank(df, PILLAR_STRUCTURE[p].total_col, i)]]

\* The pillar total derived from the pillar's sub-indicators (their mean)
\* instead of read from the total column.
DetailedPillarsFromSubs(row) ==
  [p \in 1..NumPillars |->
     LET cols == PILLAR_STRUCTURE[p].sub_cols
         sum[s \in 0..Len(cols)] ==
           IF s = 0 THEN 0 ELSE sum[s - 1] + safe_float(RowGet(row, cols[s][1]))
     IN  [pillar_name |-> PILLAR_STRUCTURE[p].pillar_name,
          total_pillar_score |-> Round2(sum[Len(cols)] \div Len(cols)),
          sub_pillars |->
            [s \in DOMAIN cols |->
               [name |-> cols[s][2],
                score |-> Round2(safe_float(RowGet(row, cols[s][1])))]]]]

\* Lines 212-225: the 9 pillars of a row, each with its sub-pillars.
DetailedPillars(row) ==
  [p \in 1..NumPillars |->
     [pillar_name |-> PILLAR_STRUCTURE[p].pillar_name,
      total_pillar_score |-> Round2(safe_float(RowGet(row, PILLAR_STRUCTURE[p].total_col))),
      sub_pillars |->
        [s \in DOMAIN PILLAR_STRUCTURE[p].sub_cols |->
           [name |-> PILLAR_STRUCTURE[p].sub_cols[s][2],
            score |-> Round2(safe_float(RowGet(row, PILLAR_STRUCTURE[p].sub_cols[s][1])))]]]]

\* Lines 194-233: the entity graph of row i.
BuildCountry(df, i) ==
  [country_name |-> Strip(df[i].Country),
   overall_adei_score |-> RoundInt(safe_float(df[i].ADEI)),
   overall_adei_rank |-> AdeiRank(df[i]),
   dimension_summary |-> DimensionSummary(df, i),
   detailed_pillars |-> DetailedPillars(df[i])]

\* all_countries.sort(key=overall_adei_rank): Python's sort is stable.
RECURSIVE SortByRank(_)
SortByRank(cs) ==
  IF cs = <<>> THEN <<>>
  ELSE LET m == SetMin({cs[i].overall_adei_rank : i \in DOMAIN cs})
       IN  SelectSeq(cs, LAMBDA c : c.overall_adei_rank = m)
             \o SortByRank(SelectSeq(cs, LAMBDA c : c.overall_adei_rank # m))

\* Line 204 raises: df["Country"] == row["Country"] selects no row when the
\* Country cell is NaN (NaN equals nothing, itself included), and .iloc[0]
\* of the empty selection is an IndexError.
LookupFails(df) == \E i \in DOMAIN df : df[i].Country = ""

\* The script raises before anything is written: a rank column that cannot
\* be cast (line 186), or a rank lookup that finds no row (line 204).
NormalizeFails(df) ==
  \/ \E p \in 1..NumPillars : RankFails(df, PILLAR_STRUCTURE[p].total_col)
  \/ LookupFails(df)

\* Lines 168-236: the Normalizer's output list.
Normalize(t) ==
  LET df == ReadExcel(t)
  IN  SortByRank([i \in DOMAIN df |-> BuildCountry(df, i)])

(***************************************************************************)
(* The SQLite store: four tables, rows in insertion order.  Every id is    *)
(* INTEGER PRIMARY KEY AUTOINCREMENT and no row is ever deleted, so the    *)
(* next id of dimension_summaries, pillars and sub_pillars is the row      *)
(* count plus one.  countries keeps its own sequence: SQLite advances the  *)
(* AUTOINCREMENT sequence also for an INSERT OR IGNORE that is skipped on  *)
(* the UNIQUE name.                                                        *)
(***************************************************************************)
EmptyDb ==
  [exists |-> TRUE, countries |-> <<>>, dimension_summaries |-> <<>>,
   pillars |-> <<>>, sub_pillars |-> <<>>, seq_countries |-> 0]

\* No database file at DB_PATH.
NoDb == [EmptyDb EXCEPT !.exists = FALSE]

\* The interchange JSON file.
NoJson == [exists |-> FALSE, data |-> <<>>]

\* A row inserted on a connection: its table, its id, the id it refers to
\* (country_id or pillar_id, 0 in countries) and the iteration of the loop
\* that inserted it.
Inserted(table, id, parent, iter) ==
  [table |-> table, id |-> id, parent |-> parent, iter |-> iter]

\* A connection: its view of the database (committed rows plus its open
\* transaction), sqlite3_last_insert_rowid, the loop's locals, the number
\* of iterations started and the rows inserted so far, in order.
Connect(db) ==
  [open |-> TRUE, db |-> db, lastrowid |-> 0, country_id |-> 0, pillar_id |-> 0,
   iter |-> 0, log |-> <<>>]
NoConn == [Connect(NoDb) EXCEPT !.open = FALSE]

\* The tables created over the old file, its rows kept.
CreateWithoutUnlink(db) == IF db.exists THEN db ELSE EmptyDb

\* convert_excel_to_json.py 257-302: unlink the old file, create the tables.
UnlinkAndCreate(db) == EmptyDb

\* load_to_db.py 78-82: connect (the file is created when absent) and
\* CREATE TABLE IF NOT EXISTS: the rows of an existing store stay.
CreateSchema(db) == IF db.exists THEN db ELSE EmptyDb

HasCountry(db, name) == \E i \in DOMAIN db.countries : db.countries[i].name = name

\* SELECT id FROM countries WHERE name = ?
SelectCountryId(db, name) ==
  LET i == CHOOSE i \in DOMAIN db.countries : db.countries[i].name = name
  IN  db.countries[i].id

\* A plain INSERT with no check of the name.
InsertCountryNoIgnore(db, g) ==
  [db EXCEPT !.countries = Append(@, [id |-> db.seq_countries + 1,
                                      name |-> g.country_name,
                                      adei_score |-> g.overall_adei_score,
                                      adei_rank |-> g.overall_adei_rank]),
             !.seq_countries = @ + 1]

\* INSERT OR IGNORE INTO countries (name, adei_score, adei_rank)
InsertOrIgnoreCountry(db, g) ==
  IF HasCountry(db, g.country_name)
  THEN [db EXCEPT !.seq_countries = @ + 1]
  ELSE [db EXCEPT !.countries = Append(@, [id |-> db.seq_countries + 1,
                                           name |-> g.country_name,
                                           adei_score |-> g.overall_adei_score,
                                           adei_rank |-> g.overall_adei_rank]),
                  !.seq_countries = @ + 1]

\* Line 305-309 (102 in load_to_db.py): the country insert.  byName:
\* load_to_db.py reads the country id back by name; the rebuild takes
\* cur.lastrowid, which an ignored insert leaves at the id of the last row
\* inserted on the connection.
ExecCountry(c, g, byName) ==
  LET db1 == InsertOrIgnoreCountry(c.db, g)
      lr  == IF Len(db1.countries) > Len(c.db.countries)
             THEN db1.countries[Len(db1.countries)].id
             ELSE c.lastrowid
  IN  [c EXCEPT !.db = db1, !.lastrowid = lr,
                !.iter = @ + 1,
                !.log = IF Len(db1.countries) > Len(c.db.countries)
                        THEN Append(@, Inserted("countries", lr, 0, c.iter + 1))
                        ELSE @,
                !.country_id = IF byName
                               THEN SelectCountryId(db1, g.country_name)
                               ELSE lr]

\* Lines 311-315: one INSERT INTO dimension_summaries per summary.
ExecSummaries(c, g) ==
  LET base == Len(c.db.dimension_summaries)
      n    == Len(g.dimension_summary)
  IN  [c EXCEPT !.db.dimension_summaries =
                   @ \o [d \in 1..n |->
                          [id |-> base + d, country_id |-> c.country_id,
                           dimension |-> g.dimension_summary[d].dimension,
                           pillar |-> g.dimension_summary[d].pillar,
                           value |-> g.dimension_summary[d].value,
                           rank |-> g.dimension_summary[d].rank]],
                !.log = @ \o [d \in 1..n |->
                                Inserted("dimension_summaries", base + d, c.country_id, c.iter)],
                !.lastrowid = IF n > 0 THEN base + n ELSE @]

\* Lines 318-322: INSERT INTO pillars, pillar_id = cur.lastrowid.
ExecPillar(c, pl) ==
  LET id == Len(c.db.pillars) + 1
  IN  [c EXCEPT !.db.pillars =
                   Append(@, [id |-> id, country_id |-> c.country_id,
                              pillar_name |-> pl.pillar_name,
                              total_pillar_score |-> pl.total_pillar_score]),
                !.log = Append(@, Inserted("pillars", id, c.country_id, c.iter)),
                !.lastrowid = id, !.pillar_id = id]

\* Lines 323-327: one INSERT INTO sub_pillars per sub-pillar of the pillar.
ExecSubPillars(c, pl) ==
  LET base == Len(c.db.sub_pillars)
      n    == Len(pl.sub_pillars)
  IN  [c EXCEPT !.db.sub_pillars =
                   @ \o [s \in 1..n |->
                          [id |-> base + s, pillar_id |-> c.pillar_id,
                           name |-> pl.sub_pillars[s].name,
                           score |-> pl.sub_pillars[s].score]],
                !.log = @ \o [s \in 1..n |->
                                Inserted("sub_pillars", base + s, c.pillar_id, c.iter)],
                !.lastrowid = IF n > 0 THEN base + n ELSE @]

\* Lines 317-327: the first n pillars, each followed by its sub-pillars.
RECURSIVE ExecPillars(_, _, _)
ExecPillars(c, g, n) ==
  IF n = 0 THEN c
  ELSE ExecSubPillars(ExecPillar(ExecPillars(c, g, n - 1), g.detailed_pillars[n]),
                      g.detailed_pillars[n])

\* An iteration that inserts the pillars before the dimension summaries.
InsertPillarsFirst(c, g, byName) ==
  ExecSummaries(ExecPillars(ExecCountry(c, g, byName), g, Len(g.detailed_pillars)), g)

\* One whole iteration of the loop, in program order.
InsertCountry(c, g, byName) ==
  ExecPillars(ExecSummaries(ExecCountry(c, g, byName), g), g, Len(g.detailed_pillars))

\* The statement kinds whose first execution may raise (a locked or full
\* database, a value sqlite3 cannot bind).
FailKinds == {"country", "summary", "pillar", "sub_pillar"}

\* The iteration up to, not including, the first statement of kind k.
InsertUntilFailure(c, g, k, byName) ==
  CASE k = "country" -> c
    [] k = "summary" -> ExecCountry(c, g, byName)
    [] k = "pillar" -> ExecSummaries(ExecCountry(c, g, byName), g)
    [] k = "sub_pillar" ->
         ExecPillar(ExecSummaries(ExecCountry(c, g, byName), g), g.detailed_pillars[1])

\* The rows inserted so far are kept.
CommitPartial(committed, c) == c.db

\* An exception leaves the loop: the connection goes away without commit()
\* and SQLite rolls its transaction back.
Rollback(committed, c) == committed

\* conn.commit()
Commit(committed, c) == c.db

NoTable == [hasYear |-> FALSE, rows |-> <<>>]

\* The record of a completed run of convert_excel_to_json.py: the
\* spreadsheet it read and the store it committed.
NoRebuild == [valid |-> FALSE, input |-> NoTable, store |-> NoDb]

\* No call of the Analytics Layer since the last script started.
NoReply == [op |-> "none", args |-> <<>>, value |-> <<>>]

\* run_extraction has not been started.
NoExtraction ==
  [pc |-> "none", all_chunks |-> <<>>, i |-> 0, country_chunks |-> <<>>,
   all_countries_data |-> <<>>, saved |-> FALSE, file |-> <<>>]

VARIABLES
  excel,         \* the spreadsheet at EXCEL_PATH
  json,          \* the interchange file oic_digital_economy_index.json
  source,        \* the spreadsheet the interchange file was written from
  store,         \* the committed content of digital_economy.db
  conn,          \* the loader's connection
  pc,            \* "idle", or the position of the running script
  idx,           \* the index of the loop's current country
  status,        \* how the last run ended
  loads,         \* runs started so far
  edits,         \* changes made to the spreadsheet so far
  prevRebuild,   \* the completed rebuild before the last one
  lastRebuild,   \* the last completed rebuild
  reply,         \* the last call of the Analytics Layer and what it returned
  extraction     \* the run of run_extraction (main.py)

vars == <<excel, json, source, store, conn, pc, idx, status, loads, edits,
          prevRebuild, lastRebuild, reply, extraction>>

Init ==
  /\ excel \in Tables
  /\ json = NoJson
  /\ source = NoTable
  /\ store = NoDb
  /\ conn = NoConn
  /\ pc = "idle"
  /\ idx = 0
  /\ status = "none"
  /\ loads = 0
  /\ edits = 0
  /\ prevRebuild = NoRebuild
  /\ lastRebuild = NoRebuild
  /\ reply = NoReply
  /\ extraction = NoExtraction

\* Between runs the spreadsheet gets another row.  (Init covers every
\* spreadsheet a first run can find.)
EditExcel ==
  /\ pc = "idle"
  /\ loads > 0
  /\ edits < MaxEdits
  /\ Len(excel.rows) < MaxRows
  /\ \E r \in RawRows : excel' = [excel EXCEPT !.rows = Append(@, r)]
  /\ edits' = edits + 1
  /\ UNCHANGED <<json, source, store, conn, pc, idx, status, loads,
                 prevRebuild, lastRebuild, reply, extraction>>

\* convert_excel_to_json.py 168-186, the script raises: nothing is written.
NormalizerRaises ==
  /\ pc = "idle"
  /\ loads < MaxLoads
  /\ NormalizeFails(ReadExcel(excel))
  /\ loads' = loads + 1
  /\ status' = "normalize_error"
  /\ UNCHANGED <<excel, json, source, store, conn, pc, idx, edits,
                 prevRebuild, lastRebuild, reply, extraction>>

\* convert_excel_to_json.py 168-251: read, rank, build, sort, write JSON.
Normalizer ==
  /\ pc = "idle"
  /\ loads < MaxLoads
  /\ ~NormalizeFails(ReadExcel(excel))
  /\ loads' = loads + 1
  /\ json' = [exists |-> TRUE, data |-> Normalize(excel)]
  /\ source' = excel
  /\ pc' = "rebuild_open"
  /\ status' = "running"
  /\ reply' = NoReply
  /\ UNCHANGED <<excel, store, conn, idx, edits, prevRebuild, lastRebuild,
                 extraction>>

\* convert_excel_to_json.py 257-302
RebuildOpen ==
  /\ pc = "rebuild_open"
  /\ store' = UnlinkAndCreate(store)
  /\ conn' = Connect(store')
  /\ idx' = 1
  /\ pc' = "rebuild_insert"
  /\ UNCHANGED <<excel, json, source, status, loads, edits, prevRebuild, lastRebuild, reply,
                 extraction>>

\* convert_excel_to_json.py 304-327, one iteration.
RebuildInsert ==
  /\ pc = "rebuild_insert"
  /\ idx <= Len(json.data)
  /\ conn' = InsertCountry(conn, json.data[idx], FALSE)
  /\ idx' = idx + 1
  /\ UNCHANGED <<excel, json, source, store, pc, status, loads, edits,
                 prevRebuild, lastRebuild, reply, extraction>>

\* convert_excel_to_json.py 304-327, an execute raises: the script ends
\* without commit().
RebuildInsertRaises ==
  /\ pc = "rebuild_insert"
  /\ idx <= Len(json.data)
  /\ \E k \in FailKinds :
       store' = Rollback(store, InsertUntilFailure(conn, json.data[idx], k, FALSE))
  /\ conn' = NoConn
  /\ pc' = "idle"
  /\ status' = "failed"
  /\ UNCHANGED <<excel, json, source, idx, loads, edits, prevRebuild, lastRebuild, reply,
                 extraction>>

\* convert_excel_to_json.py 329-330
RebuildCommit ==
  /\ pc = "rebuild_insert"
  /\ idx > Len(json.data)
  /\ store' = Commit(store, conn)
  /\ conn' = NoConn
  /\ pc' = "idle"
  /\ status' = "rebuilt"
  /\ prevRebuild' = lastRebuild
  /\ lastRebuild' = [valid |-> TRUE, input |-> source, store |-> store']
  /\ UNCHANGED <<excel, json, source, idx, loads, edits, reply, extraction>>

\* load_to_db.py 69-71: no JSON file, the function returns.
LoadNoJson ==
  /\ pc = "idle"
  /\ loads < MaxLoads
  /\ ~json.exists
  /\ loads' = loads + 1
  /\ status' = "no_json"
  /\ UNCHANGED <<excel, json, source, store, conn, pc, idx, edits,
                 prevRebuild, lastRebuild, reply, extraction>>

\* load_to_db.py 73-82
LoadOpen ==
  /\ pc = "idle"
  /\ loads < MaxLoads
  /\ json.exists
  /\ loads' = loads + 1
  /\ store' = CreateSchema(store)
  /\ conn' = Connect(store')
  /\ idx' = 1
  /\ pc' = "load_insert"
  /\ status' = "running"
  /\ reply' = NoReply
  /\ UNCHANGED <<excel, json, source, edits, prevRebuild, lastRebuild, extraction>>

\* load_to_db.py 86-127, one iteration.
LoadInsert ==
  /\ pc = "load_insert"
  /\ idx <= Len(json.data)
  /\ conn' = InsertCountry(conn, json.data[idx], TRUE)
  /\ idx' = idx + 1
  /\ UNCHANGED <<excel, json, source, store, pc, status, loads, edits,
                 prevRebuild, lastRebuild, reply, extraction>>

\* load_to_db.py 86-127, an execute raises: the function is left without
\* commit().
LoadInsertRaises ==
  /\ pc = "load_insert"
  /\ idx <= Len(json.data)
  /\ \E k \in FailKinds :
       store' = Rollback(store, InsertUntilFailure(conn, json.data[idx], k, TRUE))
  /\ conn' = NoConn
  /\ pc' = "idle"
  /\ status' = "failed"
  /\ UNCHANGED <<excel, json, source, idx, loads, edits, prevRebuild, lastRebuild, reply,
                 extraction>>

\* load_to_db.py 130-131
LoadCommit ==
  /\ pc = "load_insert"
  /\ idx > Len(json.data)
  /\ store' = Commit(store, conn)
  /\ conn' = NoConn
  /\ pc' = "idle"
  /\ status' = "loaded"
  /\ UNCHANGED <<excel, json, source, idx, loads, edits, prevRebuild, lastRebuild, reply,
                 extraction>>

Next ==
  \/ EditExcel
  \/ NormalizerRaises
  \/ Normalizer
  \/ RebuildOpen
  \/ RebuildInsert
  \/ RebuildInsertRaises
  \/ RebuildCommit
  \/ LoadNoJson
  \/ LoadOpen
  \/ LoadInsert
  \/ LoadInsertRaises
  \/ LoadCommit

Spec == Init /\ [][Next]_vars

(***************************************************************************)
(* The Region Classifier (profile_generator.py) and the configured         *)
(* countries (src/config.py).                                              *)
(***************************************************************************)
COUNTRIES ==
  << "United Arab Emirates", "Saudi Arabia", "Malaysia", "Qatar",
     "Indonesia", "Turkey", "Kazakhstan", "Jordan", "Morocco", "Tunisia",
     "Oman", "Uzbekistan", "Bahrain", "Egypt", "Kuwait", "Albania",
     "Senegal", "Azerbaijan", "Algeria", "Iran, Islamic Rep.",
     "Bangladesh", "Brunei Darussalam", "Pakistan", "Nigeria", "Benin",
     "Uganda", "Cote d'Ivoire", "Lebanon", "Cameroon", "Tajikistan",
     "Mali", "Maldives", "Kyrgyz Republic", "Togo", "Suriname",
     "Mozambique", "Mauritania", "Burkina Faso", "Gabon", "Guyana",
     "Sierra Leone", "Iraq", "Guinea", "Gambia", "Niger", "Yemen",
     "Turkmenistan", "Chad", "Djibouti", "Comoros", "Guinea-Bissau",
     "Palestine", "Syrian Arab Republic", "Libya", "Sudan",
     "Afghanistan", "Somalia" >>

\* A Python dict iterates in insertion order: a sequence of regions.
COUNTRY_REGIONS ==
  <<
   [region |-> "GCC",
    countries |-> << "United Arab Emirates", "Saudi Arabia", "Kuwait",
                    "Qatar", "Bahrain", "Oman" >>],
   [region |-> "North Africa",
    countries |-> << "Morocco", "Algeria", "Tunisia", "Libya", "Egypt" >>],
   [region |-> "East Africa",
    countries |-> << "Somalia", "Djibouti", "Comoros", "Mozambique" >>],
   [region |-> "West Africa",
    countries |-> << "Nigeria", "Senegal", "Gambia", "Guinea",
                    "Guinea-Bissau", "Sierra Leone", "Burkina Faso",
                    "Mali", "Niger", "Chad", "Togo", "Benin",
                    "Cote d'Ivoire" >>],
   [region |-> "Central Africa",
    countries |-> << "Cameroon", "Gabon", "Equatorial Guinea" >>],
   [region |-> "Middle East & Levant",
    countries |-> << "Jordan", "Iraq", "Syrian Arab Republic", "Yemen",
                    "Palestine", "Lebanon", "Iran, Islamic Rep." >>],
   [region |-> "South Asia",
    countries |-> << "Pakistan", "Bangladesh", "Afghanistan", "Maldives" >>],
   [region |-> "Southeast Asia",
    countries |-> << "Malaysia", "Indonesia", "Brunei Darussalam" >>],
   [region |-> "Central & West Asia",
    countries |-> << "Kazakhstan", "Kyrgyzstan", "Tajikistan",
                    "Turkmenistan", "Uzbekistan", "Azerbaijan", "Turkey" >>],
   [region |-> "Europe & Americas",
    countries |-> << "Albania", "Suriname", "Guyana" >>]
  >>

\* Members(r): the names in the list of region number r.
Members(r) == {COUNTRY_REGIONS[r].countries[i] : i \in DOMAIN COUNTRY_REGIONS[r].countries}

\* get_country_region: the first region whose list holds the name.
get_country_region(country_name) ==
  IF \E r \in DOMAIN COUNTRY_REGIONS : country_name \in Members(r)
  THEN COUNTRY_REGIONS[SetMin({r \in DOMAIN COUNTRY_REGIONS : country_name \in Members(r)})].region
  ELSE "Other"

(***************************************************************************)
(* The spreadsheets behind the stores the Analytics Layer reads.            *)
(***************************************************************************)

\* A spreadsheet row for the i-th configured country: ADEI scores that tie
\* in pairs, the Rank column their dense-min rank, totals and sub-indicator
\* scores with three decimals.
LeagueRow(i) ==
  Row(COUNTRIES[i], 2,
      Num(90000 - 1500 * (i \div 2)),
      Num((IF i = 1 THEN 1 ELSE 2 * (i \div 2)) * 1000),
      Num(95000 - 1234 * i),
      Num(40000 + 1112 * i),
      Num(20000 + 1006 * i),
      Num(60000 - 1002 * i))

\* The spreadsheet of the first n configured countries.
League(n) == [hasYear |-> FALSE, rows |-> [i \in 1..n |-> LeagueRow(i)]]

\* The spreadsheets behind the stores of the Analytics Layer.
AnalyticsTables ==
  {t \in Tables \cup {League(n) : n \in 1..MaxLeague} :
     ~NormalizeFails(ReadExcel(t))}

\* The names the callers of the Analytics Layer pass.
QueryNames ==
  {"A", "C", "X", "United Arab Emirates", "Malaysia", "Qatar"}

\* The names passed to the Region Classifier alone: configured countries
\* in and out of the region lists, a listed name that is not configured,
\* and a name that is neither.
RegionQueryNames ==
  {"Qatar", "Somalia", "Uganda", "Kyrgyz Republic", "Kyrgyzstan", "X"}

(***************************************************************************)
(* The Analytics Layer (profile_generator.py): queries over the store.     *)
(* A data frame is a sequence of records, in the order of its rows.        *)
(***************************************************************************)

\* The stored label left as it is.
KeepPillarName(name) == name

\* pillar_name.str.replace(r'^\w+\sPillar:\s', '', regex=True) on the
\* pillar names of the catalog; a name without the prefix stays as it is.
CleanPillarName(name) ==
  CASE name = "First Pillar: Institutions" -> "Institutions"
    [] name = "Second Pillar: Infrastructure" -> "Infrastructure"
    [] name = "Third Pillar: Workforce" -> "Workforce"
    [] name = "Fourth Pillar: E-Government" -> "E-Government"
    [] name = "Fifth Pillar: Innovation" -> "Innovation"
    [] name = "Sixth Pillar: Future Technologies" -> "Future Technologies"
    [] name = "Seventh Pillar: Market Development and Sophistication"
         -> "Market Development and Sophistication"
    [] name = "Eighth Pillar: Financial Market Development"
         -> "Financial Market Development"
    [] name = "Ninth Pillar: Sustainable Development Goals"
         -> "Sustainable Development Goals"
    [] OTHER -> name

\* The ids of the countries rows with one of the names.
CountryIds(db, names) ==
  {db.countries[i].id : i \in {j \in DOMAIN db.countries : db.countries[j].name \in names}}

\* FROM countries WHERE id = ?  (joins reach a country through its id; a
\* country_id that is no country's id joins with nothing).
CountryById(db, id) ==
  db.countries[CHOOSE i \in DOMAIN db.countries : db.countries[i].id = id]

\* FROM pillars p JOIN countries c ON p.country_id = c.id WHERE c.name IN
\* names, in the order of the pillars table.
PillarsJoin(db, names) ==
  SelectSeq(db.pillars, LAMBDA p : p.country_id \in CountryIds(db, names))

\* FROM sub_pillars sp JOIN pillars p ON sp.pillar_id = p.id JOIN countries
\* c ON p.country_id = c.id WHERE c.name IN names, in the order of the
\* sub_pillars table, which is the order of (p.id, sp.id).  The pillar with
\* id n is row n of its table.
SubPillarsJoin(db, names) ==
  LET ids == CountryIds(db, names)
  IN  SelectSeq(db.sub_pillars, LAMBDA sp : db.pillars[sp.pillar_id].country_id \in ids)

\* Lines 11-51.
get_country_profile_data(country_name, db) ==
  LET cs == SelectSeq(db.countries, LAMBDA c : c.name = country_name)
      ps == PillarsJoin(db, {country_name})
      ss == SubPillarsJoin(db, {country_name})
  IN  [main_stats |->
         [i \in DOMAIN cs |-> [adei_score |-> cs[i].adei_score,
                               adei_rank |-> cs[i].adei_rank]],
       pillars_df |->
         [i \in DOMAIN ps |-> [pillar_name |-> CleanPillarName(ps[i].pillar_name),
                               total_pillar_score |-> ps[i].total_pillar_score]],
       sub_pillars_df |->
         [i \in DOMAIN ss |->
            [pillar_name |-> CleanPillarName(db.pillars[ss[i].pillar_id].pillar_name),
             indicator |-> ss[i].name,
             score |-> ss[i].score]]]

\* The rows of a sequence in reverse order.
Reverse(s) == [i \in 1..Len(s) |-> s[Len(s) + 1 - i]]

\* ORDER BY a column DESC.  SQL leaves the order of rows with equal keys open:
\* ties is "asc" for ties in table order, "desc" for ties in reverse table
\* order.
RECURSIVE OrderByDesc(_, _, _)
OrderByDesc(rows, by, ties) ==
  IF rows = <<>> THEN <<>>
  ELSE LET m    == SetMax({rows[i][by] : i \in DOMAIN rows})
           top  == SelectSeq(rows, LAMBDA r : r[by] = m)
           rest == SelectSeq(rows, LAMBDA r : r[by] # m)
       IN  (IF ties = "asc" THEN top ELSE Reverse(top)) \o OrderByDesc(rest, by, ties)

\* ORDER BY a column ASC, with the same two tie orders.
RECURSIVE OrderByAsc(_, _, _)
OrderByAsc(rows, by, ties) ==
  IF rows = <<>> THEN <<>>
  ELSE LET m    == SetMin({rows[i][by] : i \in DOMAIN rows})
           low  == SelectSeq(rows, LAMBDA r : r[by] = m)
           rest == SelectSeq(rows, LAMBDA r : r[by] # m)
       IN  (IF ties = "asc" THEN low ELSE Reverse(low)) \o OrderByAsc(rest, by, ties)

TieOrders == {"asc", "desc"}

\* df.head(n) and df.tail(n), n >= 0.
DfHead(df, n) == SubSeq(df, 1, IF n < Len(df) THEN n ELSE Len(df))

\* A slice that starts one row early.
DfTailOneMore(df, n) == SubSeq(df, IF n < Len(df) THEN Len(df) - n ELSE 1, Len(df))

DfTail(df, n) == SubSeq(df, IF n < Len(df) THEN Len(df) - n + 1 ELSE 1, Len(df))

\* The slice left in the order of the query.
KeepOrder(df, by) == df

\* df.sort_values(column), ascending; rows with equal keys keep their order
\* (the slices sorted here are short).
SortValues(df, by) == OrderByAsc(df, by, "asc")

\* The values of top_n the callers pass: the default, and more than half of
\* a country's 53 sub-indicators.
TopNs == {5, 27}

\* Lines 304-318.  row is the sub_pillars row a line was read from: it is
\* no column of the frames, it tells equal-looking lines apart.
get_country_strengths_weaknesses(country_name, db, top_n, ties) ==
  LET ss == SubPillarsJoin(db, {country_name})
      df == OrderByDesc([i \in DOMAIN ss |->
                           [indicator |-> ss[i].name,
                            score |-> ss[i].score,
                            pillar_name |-> CleanPillarName(db.pillars[ss[i].pillar_id].pillar_name),
                            row |-> ss[i].id]],
                        "score", ties)
  IN  [strengths |-> DfHead(df, top_n),
       weaknesses |-> SortValues(DfTail(df, top_n), "score")]

\* Lines 121-127.
get_leaderboard_data(db, ties) ==
  LET df == OrderByAsc([i \in DOMAIN db.countries |->
                          [name |-> db.countries[i].name,
                           adei_score |-> db.countries[i].adei_score,
                           adei_rank |-> db.countries[i].adei_rank]],
                       "adei_rank", ties)
  IN  [top_10 |-> DfHead(df, 10),
       bottom_10 |-> SortValues(DfTail(df, 10), "adei_rank")]

\* A float that is one stored score, and the mean of a non-empty sequence of
\* scores: sum / count, kept as the two integers.
Exact(v) == [sum |-> v, count |-> 1]

SumOf(s, col) ==
  LET acc[i \in 0..Len(s)] == IF i = 0 THEN 0 ELSE acc[i - 1] + s[i][col]
  IN  acc[Len(s)]

\* Series.mean() of the rows of a group.
Mean(rows, col) == [sum |-> SumOf(rows, col), count |-> Len(rows)]

\* Two means are the same number.
SameMean(a, b) == a.sum * b.count = b.sum * a.count

\* groupby('pillar_name') lists its groups in the sorted order of the keys:
\* the cleaned pillar names of the catalog in alphabetical order.
SortedPillarNames ==
  << "E-Government", "Financial Market Development", "Future Technologies",
     "Infrastructure", "Innovation", "Institutions",
     "Market Development and Sophistication",
     "Sustainable Development Goals", "Workforce" >>

\* The list of peer names of line 324: the region's list, the country alone
\* for the region 'Other', which has no list.
Peers(country_name) ==
  LET region == get_country_region(country_name)
  IN  IF region = "Other" THEN {country_name}
      ELSE UNION {Members(r) : r \in {q \in DOMAIN COUNTRY_REGIONS :
                                        COUNTRY_REGIONS[q].region = region}}

\* The frame with no row filtered out.
WholeFrame(df, country_name) == df

\* df[df['name'] != country_name]
NotCountry(df, country_name) == SelectSeq(df, LAMBDA r : r.name # country_name)

\* Lines 321-345.
get_peer_region_data(country_name, db) ==
  LET region == get_country_region(country_name)
      ps == PillarsJoin(db, Peers(country_name))
      df == [i \in DOMAIN ps |->
               [name |-> CountryById(db, ps[i].country_id).name,
                pillar_name |-> CleanPillarName(ps[i].pillar_name),
                total_pillar_score |-> ps[i].total_pillar_score]]
      others == NotCountry(df, country_name)
      keys == SelectSeq(SortedPillarNames,
                        LAMBDA k : \E i \in DOMAIN others : others[i].pillar_name = k)
      avg_df == [g \in DOMAIN keys |->
                   [name |-> region \o " Average",
                    pillar_name |-> keys[g],
                    total_pillar_score |->
                      Mean(SelectSeq(others, LAMBDA r : r.pillar_name = keys[g]),
                           "total_pillar_score"),
                    group |-> region \o " Avg"]]
      own == SelectSeq(df, LAMBDA r : r.name = country_name)
      country_df == [i \in DOMAIN own |->
                       [name |-> own[i].name,
                        pillar_name |-> own[i].pillar_name,
                        total_pillar_score |-> Exact(own[i].total_pillar_score),
                        group |-> country_name]]
  IN  [combined |-> country_df \o avg_df, region |-> region]

\* FROM pillars p JOIN countries c ON p.country_id = c.id, in the order of
\* the pillars table: a pillar whose country_id is no country's id joins
\* with nothing.
AllPillarsJoin(db) ==
  SelectSeq(db.pillars,
            LAMBDA p : \E i \in DOMAIN db.countries : db.countries[i].id = p.country_id)

\* The frame with its repeated names left in.
KeepDuplicates(df) == df

\* df.drop_duplicates(subset=['name']): the first row of each name.
DropDuplicateNames(df) ==
  LET first == {i \in DOMAIN df : \A j \in 1..(i - 1) : df[j].name # df[i].name}
      pick[i \in 0..Len(df)] ==
        IF i = 0 THEN <<>>
        ELSE IF i \in first THEN Append(pick[i - 1], df[i]) ELSE pick[i - 1]
  IN  pick[Len(df)]

\* mean().round(1) of a group with the given sum and count, in tenths:
\* numpy rounds the mean scaled by 10 half to even.  (The groups of the
\* model have fewer than 20 rows of whole-number scores, so a mean ending in
\* 5 hundredths is a multiple of 0.25, which a float holds exactly.)
Round1(m) ==
  LET n == 10 * m.sum
      q == n \div m.count
      r == n % m.count
  IN  IF 2 * r < m.count THEN q
      ELSE IF 2 * r > m.count THEN q + 1
      ELSE IF q % 2 = 0 THEN q ELSE q + 1

\* groupby('region') lists its groups in the sorted order of the keys.
SortedRegions ==
  << "Central & West Asia", "Central Africa", "East Africa",
     "Europe & Americas", "GCC", "Middle East & Levant", "North Africa",
     "Other", "South Asia", "Southeast Asia", "West Africa" >>

\* Lines 375-394.  avg_adei is in tenths; the pillar means are those of
\* scores in thousandths, rounded to tenths of a point.
get_regional_aggregation(db) ==
  LET ps == AllPillarsJoin(db)
      df == [i \in DOMAIN ps |->
               [name |-> CountryById(db, ps[i].country_id).name,
                adei_score |-> CountryById(db, ps[i].country_id).adei_score,
                pillar_name |-> CleanPillarName(ps[i].pillar_name),
                total_pillar_score |-> ps[i].total_pillar_score,
                region |-> get_country_region(CountryById(db, ps[i].country_id).name)]]
      adei_df == DropDuplicateNames(df)
      regions == SelectSeq(SortedRegions,
                           LAMBDA g : \E i \in DOMAIN df : df[i].region = g)
      adei_avg ==
        [g \in DOMAIN regions |->
           LET rows == SelectSeq(adei_df, LAMBDA r : r.region = regions[g])
           IN  [region |-> regions[g],
                avg_adei |-> Round1(Mean(rows, "adei_score")),
                country_count |-> Len(rows)]]
      pillar_avg ==
        [g \in DOMAIN regions |->
           LET inRegion == SelectSeq(df, LAMBDA r : r.region = regions[g])
               keys == SelectSeq(SortedPillarNames,
                         LAMBDA k : \E i \in DOMAIN inRegion : inRegion[i].pillar_name = k)
           IN  [k \in DOMAIN keys |->
                  LET rows == SelectSeq(inRegion, LAMBDA r : r.pillar_name = keys[k])
                      m    == Mean(rows, "total_pillar_score")
                  IN  [region |-> regions[g],
                       pillar_name |-> keys[k],
                       total_pillar_score |->
                         Round1([sum |-> m.sum, count |-> 1000 * m.count])]]]
  IN  [adei_avg |-> adei_avg, pillar_avg |-> pillar_avg]

\* The names of the model's stores in the order pandas sorts an index of
\* strings (by code point): the configured countries, the short names of
\* the small spreadsheets, and str(nan).
SortedNames ==
  << "A", "Afghanistan", "Albania", "Algeria", "Azerbaijan", "B", "Bahrain",
     "Bangladesh", "Benin", "Brunei Darussalam", "Burkina Faso", "C",
     "Cameroon", "Chad", "Comoros", "Cote d'Ivoire", "Djibouti", "Egypt",
     "Gabon", "Gambia", "Guinea", "Guinea-Bissau", "Guyana", "Indonesia",
     "Iran, Islamic Rep.", "Iraq", "Jordan", "Kazakhstan", "Kuwait",
     "Kyrgyz Republic", "Lebanon", "Libya", "Malaysia", "Maldives", "Mali",
     "Mauritania", "Morocco", "Mozambique", "Niger", "Nigeria", "Oman",
     "Pakistan", "Palestine", "Qatar", "Saudi Arabia", "Senegal",
     "Sierra Leone", "Somalia", "Sudan", "Suriname", "Syrian Arab Republic",
     "Tajikistan", "Togo", "Tunisia", "Turkey", "Turkmenistan", "Uganda",
     "United Arab Emirates", "Uzbekistan", "Yemen", "nan" >>

\* pillar_order (lines 414-417; get_oic_aggregate_stats has the same list
\* as order, lines 294-297).
pillar_order ==
  << "Institutions", "Infrastructure", "Workforce", "E-Government",
     "Innovation", "Future Technologies",
     "Market Development and Sophistication",
     "Financial Market Development", "Sustainable Development Goals" >>

\* The rows left in the order of the pivot's index.
PivotIndexOrder(pivot, ties) == pivot

\* .sort_values('adei_rank') on the pivot: numpy's default sort does not
\* promise the order of rows with equal ranks.
SortByAdeiRank(pivot, ties) == OrderByAsc(pivot, "Rank", ties)

\* Lines 397-421.  The frame is [columns, rows]; a row is a function on the
\* column names, a pillar cell the mean of the country's scores of the
\* pillar (pivot_table aggregates with the mean), count 0 for NaN.  The
\* pivot's index is sorted by name, whatever the ORDER BY of the query.
get_rankings_explorer_data(db, ties) ==
  LET ps == AllPillarsJoin(db)
      df == [i \in DOMAIN ps |->
               [name |-> CountryById(db, ps[i].country_id).name,
                adei_score |-> CountryById(db, ps[i].country_id).adei_score,
                adei_rank |-> CountryById(db, ps[i].country_id).adei_rank,
                pillar_name |-> CleanPillarName(ps[i].pillar_name),
                total_pillar_score |-> ps[i].total_pillar_score]]
      index == SelectSeq(SortedNames, LAMBDA n : \E i \in DOMAIN df : df[i].name = n)
      pivot_columns == {df[i].pillar_name : i \in DOMAIN df}
      base_cols == << "Country", "Rank", "ADEI Score" >>
      ordered_cols == base_cols \o SelectSeq(pillar_order, LAMBDA c : c \in pivot_columns)
      pivot ==
        [n \in DOMAIN index |->
           LET own == SelectSeq(df, LAMBDA r : r.name = index[n])
           IN  [c \in {ordered_cols[k] : k \in DOMAIN ordered_cols} |->
                  CASE c = "Country" -> index[n]
                    [] c = "Rank" -> own[1].adei_rank
                    [] c = "ADEI Score" -> own[1].adei_score
                    [] OTHER -> Mean(SelectSeq(own, LAMBDA r : r.pillar_name = c),
                                     "total_pillar_score")]]
  IN  [columns |-> ordered_cols, rows |-> SortByAdeiRank(pivot, ties)]

\* The pillar names the callers pass: stored labels, as get_all_pillar_names
\* returns them, and a short label, which no pillars row has.
PillarQueryNames ==
  {"First Pillar: Institutions", "Third Pillar: Workforce",
   "Ninth Pillar: Sustainable Development Goals", "Institutions"}

\* The rank of rank(method='min'): one more than the number of rows with a
\* greater score.
TieRank(df, i) ==
  1 + Cardinality({j \in DOMAIN df : df[j].total_pillar_score > df[i].total_pillar_score})

\* range(1, len(countries_df) + 1): the rank of a row is its position.
PositionRank(df, i) == i

\* Lines 136-161.  sub_pillars_df is ordered by adei_rank, then by the id
\* of the sub_pillars row.
get_pillar_rankings(pillar_name, db, ties) ==
  LET ps == SelectSeq(AllPillarsJoin(db), LAMBDA p : p.pillar_name = pillar_name)
      df == OrderByDesc([i \in DOMAIN ps |->
                           [name |-> CountryById(db, ps[i].country_id).name,
                            adei_rank |-> CountryById(db, ps[i].country_id).adei_rank,
                            total_pillar_score |-> ps[i].total_pillar_score]],
                        "total_pillar_score", ties)
      ss == SelectSeq(db.sub_pillars,
                      LAMBDA sp :
                        /\ db.pillars[sp.pillar_id].pillar_name = pillar_name
                        /\ \E i \in DOMAIN db.countries :
                             db.countries[i].id = db.pillars[sp.pillar_id].country_id)
      sub == OrderByAsc([i \in DOMAIN ss |->
                           [name |-> CountryById(db, db.pillars[ss[i].pillar_id].country_id).name,
                            adei_rank |-> CountryById(db, db.pillars[ss[i].pillar_id].country_id).adei_rank,
                            indicator |-> ss[i].name,
                            score |-> ss[i].score]],
                        "adei_rank", "asc")
  IN  [countries_df |->
         [i \in DOMAIN df |->
            [pillar_rank |-> PositionRank(df, i),
             name |-> df[i].name,
             adei_rank |-> df[i].adei_rank,
             total_pillar_score |-> df[i].total_pillar_score]],
       sub_pillars_df |->
         [i \in DOMAIN sub |->
            [name |-> sub[i].name, indicator |-> sub[i].indicator, score |-> sub[i].score]]]

\* The stored pillar labels in ascending order, as ORDER BY pillar_name
\* lists them.
SortedStoredNames ==
  << "Eighth Pillar: Financial Market Development", "Fifth Pillar: Innovation",
     "First Pillar: Institutions", "Fourth Pillar: E-Government",
     "Ninth Pillar: Sustainable Development Goals",
     "Second Pillar: Infrastructure",
     "Seventh Pillar: Market Development and Sophistication",
     "Sixth Pillar: Future Technologies", "Third Pillar: Workforce" >>

\* The stored pillar labels in the order of their first pillars row.
ScanOrder(db) ==
  LET first == {i \in DOMAIN db.pillars :
                  \A j \in 1..(i - 1) : db.pillars[j].pillar_name # db.pillars[i].pillar_name}
      pick[i \in 0..Len(db.pillars)] ==
        IF i = 0 THEN <<>>
        ELSE IF i \in first THEN Append(pick[i - 1], db.pillars[i].pillar_name)
             ELSE pick[i - 1]
  IN  pick[Len(db.pillars)]

\* GROUP BY pillar_name without ORDER BY: SQL leaves the order of the groups
\* open.  "sorted" is the order of SQLite's sorter, ascending by the key;
\* "scan" is the order in which the groups are first met in the table.
GroupOrders == {"sorted", "scan"}

GroupBy(db, order) ==
  IF order = "sorted"
  THEN SelectSeq(SortedStoredNames,
                 LAMBDA n : \E i \in DOMAIN db.pillars : db.pillars[i].pillar_name = n)
  ELSE ScanOrder(db)

\* Lines 129-134.
get_average_pillar_scores(db, order) ==
  LET groups == GroupBy(db, order)
  IN  [g \in DOMAIN groups |->
         [pillar_name |-> CleanPillarName(groups[g]),
          average_score |->
            Mean(SelectSeq(db.pillars, LAMBDA p : p.pillar_name = groups[g]),
                 "total_pillar_score")]]

\* sort_key of get_all_pillar_names: the position in order of the ordinal
\* word the name starts with, 99 for a name that starts with none.
sort_key(n) ==
  CASE n = "First Pillar: Institutions" -> 0
    [] n = "Second Pillar: Infrastructure" -> 1
    [] n = "Third Pillar: Workforce" -> 2
    [] n = "Fourth Pillar: E-Government" -> 3
    [] n = "Fifth Pillar: Innovation" -> 4
    [] n = "Sixth Pillar: Future Technologies" -> 5
    [] n = "Seventh Pillar: Market Development and Sophistication" -> 6
    [] n = "Eighth Pillar: Financial Market Development" -> 7
    [] n = "Ninth Pillar: Sustainable Development Goals" -> 8
    [] OTHER -> 99

\* Lines 164-176: the distinct stored names, ORDER BY pillar_name, then
\* sorted(key=sort_key), which is stable.
get_all_pillar_names(db) ==
  LET names == GroupBy(db, "sorted")
      keyed == [i \in DOMAIN names |-> [name |-> names[i], key |-> sort_key(names[i])]]
      sorted == OrderByAsc(keyed, "key", "asc")
  IN  [i \in DOMAIN sorted |-> sorted[i].name]

\* Series.quantile(num / den) of a non-empty group, linear interpolation
\* between the two nearest of the sorted values, as sum / count.
Quantile(rows, col, num, den) ==
  LET v  == OrderByAsc(rows, col, "asc")
      at == (Len(v) - 1) * num
      lo == (at \div den) + 1
      hi == IF lo < Len(v) THEN lo + 1 ELSE lo
  IN  [sum |-> den * v[lo][col] + (at % den) * (v[hi][col] - v[lo][col]),
       count |-> den]

\* order.index(n) if n in order else 99 (lines 298-299).
OrdOf(n) ==
  IF \E i \in DOMAIN pillar_order : pillar_order[i] = n
  THEN (CHOOSE i \in DOMAIN pillar_order : pillar_order[i] = n) - 1
  ELSE 99

\* stats.sort_values('_ord'): the 9 rows have different _ord.
SortByOrd(stats) == OrderByAsc(stats, "_ord", "asc")

\* Lines 282-301.  The statistics are those of scores in thousandths,
\* rounded to tenths of a point.
get_oic_aggregate_stats(db) ==
  LET df == [i \in DOMAIN db.pillars |->
               [pillar_name |-> CleanPillarName(db.pillars[i].pillar_name),
                total_pillar_score |-> db.pillars[i].total_pillar_score]]
      keys == SelectSeq(SortedPillarNames,
                        LAMBDA k : \E i \in DOMAIN df : df[i].pillar_name = k)
      Tenths(m) == Round1([sum |-> m.sum, count |-> 1000 * m.count])
      stats == [g \in DOMAIN keys |->
                  LET rows == SelectSeq(df, LAMBDA r : r.pillar_name = keys[g])
                  IN  [pillar_name |-> keys[g],
                       Mean |-> Tenths(Mean(rows, "total_pillar_score")),
                       Median |-> Tenths(Quantile(rows, "total_pillar_score", 1, 2)),
                       Q1 |-> Tenths(Quantile(rows, "total_pillar_score", 1, 4)),
                       Q3 |-> Tenths(Quantile(rows, "total_pillar_score", 3, 4)),
                       _ord |-> OrdOf(keys[g])]]
      sorted == SortByOrd(stats)
  IN  [i \in DOMAIN sorted |->
         [pillar_name |-> sorted[i].pillar_name,
          Mean |-> sorted[i].Mean, Median |-> sorted[i].Median,
          Q1 |-> sorted[i].Q1, Q3 |-> sorted[i].Q3]]

\* Lines 269-279: the index and the columns of pivot.corr(), the cleaned
\* pillar labels in sorted order.  (The coefficients are real numbers; the
\* model keeps the labels of the matrix.)
get_pillar_correlation_matrix(db) ==
  LET ps == AllPillarsJoin(db)
  IN  [labels |->
         SelectSeq(SortedPillarNames,
                   LAMBDA k : \E i \in DOMAIN ps : CleanPillarName(ps[i].pillar_name) = k)]

(***************************************************************************)
(* The Analytics Layer at work: the scripts run to their commit on a       *)
(* spreadsheet they can convert, and between runs the dashboard calls the  *)
(* functions of profile_generator.py on the committed store.               *)
(***************************************************************************)
AnalyticsInit ==
  /\ excel \in AnalyticsTables
  /\ json = NoJson
  /\ source = NoTable
  /\ store = NoDb
  /\ conn = NoConn
  /\ pc = "idle"
  /\ idx = 0
  /\ status = "none"
  /\ loads = 0
  /\ edits = 0
  /\ prevRebuild = NoRebuild
  /\ lastRebuild = NoRebuild
  /\ reply = NoReply
  /\ extraction = NoExtraction

\* A call is made between runs, on a store whose tables exist; it only
\* reads.  No call depends on the reply before it, so calls are taken from
\* the states without one.
Call(op, args, value) ==
  /\ pc = "idle"
  /\ store.exists
  /\ reply.op = "none"
  /\ reply' = [op |-> op, args |-> args, value |-> value]
  /\ UNCHANGED <<excel, json, source, store, conn, pc, idx, status, loads, edits,
                 prevRebuild, lastRebuild, extraction>>

CountryProfile ==
  \E name \in QueryNames :
    Call("get_country_profile_data", <<name>>, get_country_profile_data(name, store))

Leaderboard ==
  \E ties \in TieOrders :
    Call("get_leaderboard_data", <<>>, get_leaderboard_data(store, ties))

StrengthsWeaknesses ==
  \E name \in QueryNames, top_n \in TopNs, ties \in TieOrders :
    Call("get_country_strengths_weaknesses", <<name, top_n>>,
         get_country_strengths_weaknesses(name, store, top_n, ties))

PeerRegion ==
  \E name \in QueryNames :
    Call("get_peer_region_data", <<name>>, get_peer_region_data(name, store))

RegionalAggregation ==
  Call("get_regional_aggregation", <<>>, get_regional_aggregation(store))

RankingsExplorer ==
  \E ties \in TieOrders :
    Call("get_rankings_explorer_data", <<>>, get_rankings_explorer_data(store, ties))

PillarRankings ==
  \E pillar_name \in PillarQueryNames, ties \in TieOrders :
    Call("get_pillar_rankings", <<pillar_name>>,
         get_pillar_rankings(pillar_name, store, ties))

AveragePillarScores ==
  \E order \in GroupOrders :
    Call("get_average_pillar_scores", <<>>, get_average_pillar_scores(store, order))

AllPillarNames ==
  Call("get_all_pillar_names", <<>>, get_all_pillar_names(store))

OicAggregateStats ==
  Call("get_oic_aggregate_stats", <<>>, get_oic_aggregate_stats(store))

PillarCorrelationMatrix ==
  Call("get_pillar_correlation_matrix", <<>>, get_pillar_correlation_matrix(store))

CountryRegion ==
  \E name \in RegionQueryNames :
    Call("get_country_region", <<name>>, get_country_region(name))

\* A read that sees the rows of the loader's open transaction.
ReadUncommitted(committed, c) == c.db

\* What another connection reads while the loader's transaction is open:
\* SQLite shows it the committed rows.
Visible(committed, c) == committed

\* app.py 66-69: the dashboard's own connection selects the four tables
\* while a script is inside its insert loop.
ConcurrentRead ==
  /\ pc \in {"rebuild_insert", "load_insert"}
  /\ reply.op = "none"
  /\ LET db == Visible(store, conn)
     IN  reply' = [op |-> "read", args |-> <<>>,
                   value |-> [countries |-> db.countries,
                              dimension_summaries |-> db.dimension_summaries,
                              pillars |-> db.pillars,
                              sub_pillars |-> db.sub_pillars]]
  /\ UNCHANGED <<excel, json, source, store, conn, pc, idx, status, loads, edits,
                 prevRebuild, lastRebuild, extraction>>

AnalyticsNext ==
  \/ ConcurrentRead
  \/ Normalizer
  \/ RebuildOpen
  \/ RebuildInsert
  \/ RebuildCommit
  \/ LoadOpen
  \/ LoadInsert
  \/ LoadCommit
  \/ CountryProfile
  \/ Leaderboard
  \/ StrengthsWeaknesses
  \/ PeerRegion
  \/ RegionalAggregation
  \/ RankingsExplorer
  \/ PillarRankings
  \/ AveragePillarScores
  \/ AllPillarNames
  \/ OicAggregateStats
  \/ PillarCorrelationMatrix
  \/ CountryRegion

AnalyticsSpec == AnalyticsInit /\ [][AnalyticsNext]_vars

(***************************************************************************)
(* The document path (main.py, run_extraction).  A chunk is the set of     *)
(* names its text holds; the section of a country is the sequence of the   *)
(* positions of its chunks in all_chunks.                                  *)
(***************************************************************************)

\* The pairs <<a, b>> of different names with a.lower() in b.lower(), among
\* the configured countries and 'End of Document'.
Substrings ==
  { <<"Mali", "Somalia">>, <<"Guinea", "Guinea-Bissau">>, <<"Niger", "Nigeria">> }

\* a.lower() in b.lower()
IsIn(a, b) == a = b \/ <<a, b>> \in Substrings

\* country.lower() in chunk.page_content.lower()
Mentions(chunk, country) == \E m \in chunk : IsIn(country, m)

\* The chunks of the documents of the model.
ChunkKinds ==
  { {}, {"United Arab Emirates"}, {"Saudi Arabia"},
    {"United Arab Emirates", "Saudi Arabia"}, {"Somalia"}, {"Nigeria"} }

\* The documents: up to MaxChunks chunks.
Documents == SeqsUpTo(ChunkKinds, MaxChunks) \ {<<>>}

\* Line 35.
NextCountry(i) == IF i + 1 <= Len(COUNTRIES) THEN COUNTRIES[i + 1] ELSE "End of Document"

\* Lines 37-47: the inner loop over all_chunks for the i-th country.
CountryChunks(all_chunks, i) ==
  LET country == COUNTRIES[i]
      next_country == NextCountry(i)
      scan[k \in 0..Len(all_chunks)] ==
        IF k = 0
        THEN [in_country_section |-> FALSE, country_chunks |-> <<>>, broke |-> FALSE]
        ELSE LET s  == scan[k - 1]
                 in == s.in_country_section \/ Mentions(all_chunks[k], country)
             IN  IF s.broke THEN s
                 ELSE IF /\ Mentions(all_chunks[k], next_country)
                         /\ in
                         /\ ~IsIn(country, next_country)
                      THEN [s EXCEPT !.in_country_section = in, !.broke = TRUE]
                      ELSE [s EXCEPT !.in_country_section = in,
                                     !.country_chunks = IF in THEN Append(@, k) ELSE @]
  IN  scan[Len(all_chunks)].country_chunks

ExtractionInit ==
  /\ excel = NoTable
  /\ json = NoJson
  /\ source = NoTable
  /\ store = NoDb
  /\ conn = NoConn
  /\ pc = "idle"
  /\ idx = 0
  /\ status = "none"
  /\ loads = 0
  /\ edits = 0
  /\ prevRebuild = NoRebuild
  /\ lastRebuild = NoRebuild
  /\ reply = NoReply
  /\ \E doc \in Documents :
       extraction = [NoExtraction EXCEPT !.pc = "loop", !.all_chunks = doc, !.i = 1]

Rest == <<excel, json, source, store, conn, pc, idx, status, loads, edits,
          prevRebuild, lastRebuild, reply>>

\* Lines 31-47: the section of the i-th country is collected.
CollectChunks ==
  /\ extraction.pc = "loop"
  /\ extraction.i <= Len(COUNTRIES)
  /\ LET chunks == CountryChunks(extraction.all_chunks, extraction.i)
     IN  extraction' = [extraction EXCEPT
                          !.country_chunks = chunks,
                          !.pc = IF chunks = <<>> THEN "no_content" ELSE "chain"]
  /\ UNCHANGED Rest

\* Lines 49-51: no content, a warning, the next country.
SkipNoContent ==
  /\ extraction.pc = "no_content"
  /\ extraction' = [extraction EXCEPT !.pc = "loop", !.i = @ + 1]
  /\ UNCHANGED Rest

\* Line 56: create_rag_chain_from_documents returns the chain.
ChainBuilt ==
  /\ extraction.pc = "chain"
  /\ extraction' = [extraction EXCEPT !.pc = "invoke"]
  /\ UNCHANGED Rest

\* Line 56: create_rag_chain_from_documents raises (the embedding of the
\* chunks fails, no API key); the call is outside the try block, the
\* exception leaves run_extraction.
ChainRaises ==
  /\ extraction.pc = "chain"
  /\ extraction' = [extraction EXCEPT !.pc = "raised"]
  /\ UNCHANGED Rest

\* Lines 58-62: the chain returns a structured output, kept under the name
\* of the country it was asked for.
InvokeReturns ==
  /\ extraction.pc = "invoke"
  /\ extraction' = [extraction EXCEPT
                      !.all_countries_data = Append(@, COUNTRIES[extraction.i]),
                      !.pc = "loop", !.i = @ + 1]
  /\ UNCHANGED Rest

\* Lines 63-64: invoke or the parser raises; the message is printed.
InvokeRaises ==
  /\ extraction.pc = "invoke"
  /\ extraction' = [extraction EXCEPT !.pc = "loop", !.i = @ + 1]
  /\ UNCHANGED Rest

\* Lines 67-68: the loop is over, the list is written.
SaveData ==
  /\ extraction.pc = "loop"
  /\ extraction.i > Len(COUNTRIES)
  /\ extraction' = [extraction EXCEPT !.pc = "done", !.saved = TRUE,
                                      !.file = extraction.all_countries_data]
  /\ UNCHANGED Rest

ExtractionNext ==
  \/ CollectChunks
  \/ SkipNoContent
  \/ ChainBuilt
  \/ ChainRaises
  \/ InvokeReturns
  \/ InvokeRaises
  \/ SaveData

ExtractionSpec == ExtractionInit /\ [][ExtractionNext]_vars

(***************************************************************************)
(* Properties.                                                             *)
(***************************************************************************)

\* A load has run to its commit and nothing has run since: json is the list
\* that load read.
LoadCompleted == pc = "idle" /\ status \in {"rebuilt", "loaded"}

\* C1 (as stated): for every country of the Normalizer output, adei_rank is
\* 1 + the number of countries of the batch whose ADEI score is strictly
\* greater.
C1_AdeiRankIsDenseMin ==
  json.exists =>
    \A i \in DOMAIN json.data :
      json.data[i].overall_adei_rank =
        1 + Cardinality({j \in DOMAIN json.data :
              json.data[j].overall_adei_score > json.data[i].overall_adei_score})

\* C1 (amended): the Normalizer emits one country per row of the
\* de-duplicated table, and its adei_rank is that row's own Rank cell cut to
\* an integer, 0 for an empty (NaN) Rank cell, whatever the ADEI scores are.
C1_AdeiRankIsRankCell ==
  json.exists =>
    LET df == ReadExcel(source)
        cell(i) == IF df[i].Rank.k = "num" THEN df[i].Rank.v \div 1000 ELSE 0
    IN  /\ Len(json.data) = Len(df)
        /\ \A i \in DOMAIN df :
             Cardinality({j \in DOMAIN df :
                 Strip(df[j].Country) = Strip(df[i].Country) /\ cell(j) = cell(i)})
             = Cardinality({e \in DOMAIN json.data :
                 /\ json.data[e].country_name = Strip(df[i].Country)
                 /\ json.data[e].overall_adei_rank = cell(i)})

\* C1 witness: an output of several countries in which a copied rank is not
\* the rank the ADEI scores would give.
C1_Witness ==
  /\ json.exists
  /\ Len(json.data) >= 2
  /\ \E i \in DOMAIN json.data :
       json.data[i].overall_adei_rank #
         1 + Cardinality({j \in DOMAIN json.data :
               json.data[j].overall_adei_score > json.data[i].overall_adei_score})

\* C2: for every row of the batch and each of the 9 pillars, the emitted
\* DimensionSummary rank is 1 + the number of rows of the batch whose total
\* in that pillar's column is strictly greater.
C2_PillarRankIsDenseMin ==
  json.exists =>
    LET df == ReadExcel(source)
        tot(i, p) == RowGet(df[i], PILLAR_STRUCTURE[p].total_col).v
        claimed(i) == [p \in 1..NumPillars |->
                         1 + Cardinality({j \in DOMAIN df : tot(j, p) > tot(i, p)})]
        emitted(g) == [p \in 1..NumPillars |-> g.dimension_summary[p].rank]
    IN  \A i \in DOMAIN df :
          Cardinality({j \in DOMAIN df :
              Strip(df[j].Country) = Strip(df[i].Country) /\ claimed(j) = claimed(i)})
          = Cardinality({e \in DOMAIN json.data :
              /\ json.data[e].country_name = Strip(df[i].Country)
              /\ emitted(json.data[e]) = claimed(i)})

\* C3: a NaN or non-numeric cell in the ADEI column, a pillar total column or
\* a sub-indicator column never makes the conversion fail, and the field it
\* feeds is emitted as 0.
C3_BadCellsBecomeZero ==
  /\ status # "normalize_error"
  /\ json.exists =>
       LET df == ReadExcel(source)
       IN  \A i \in DOMAIN df :
             \E e \in DOMAIN json.data :
               LET g == json.data[e]
               IN  /\ g.country_name = Strip(df[i].Country)
                   /\ df[i].ADEI.k # "num" => g.overall_adei_score = 0
                   /\ \A p \in 1..NumPillars :
                        RowGet(df[i], PILLAR_STRUCTURE[p].total_col).k # "num" =>
                          /\ g.dimension_summary[p].value = 0
                          /\ g.detailed_pillars[p].total_pillar_score = 0
                   /\ \A p \in 1..NumPillars :
                        \A s \in DOMAIN PILLAR_STRUCTURE[p].sub_cols :
                          RowGet(df[i], PILLAR_STRUCTURE[p].sub_cols[s][1]).k # "num" =>
                            g.detailed_pillars[p].sub_pillars[s].score = 0

\* C4: no two countries of the Normalizer output share a country_name.
C4_NamesUnique ==
  json.exists =>
    \A i, j \in DOMAIN json.data :
      i # j => json.data[i].country_name # json.data[j].country_name

\* C5: after a load of a list with pairwise distinct names the store holds
\* exactly one countries row per graph, and under each country's id exactly
\* the graph's dimension summaries and pillars, and under each pillar's id
\* exactly that pillar's sub-pillars.
C5_OneRowPerEntity ==
  ( /\ LoadCompleted
    /\ \A i, j \in DOMAIN json.data :
         i # j => json.data[i].country_name # json.data[j].country_name )
  =>
  /\ Len(store.countries) = Len(json.data)
  /\ \A i \in DOMAIN json.data :
       \E n \in DOMAIN store.countries :
         LET g  == json.data[i]
             c  == store.countries[n]
             ds == SelectSeq(store.dimension_summaries, LAMBDA r : r.country_id = c.id)
             ps == SelectSeq(store.pillars, LAMBDA r : r.country_id = c.id)
         IN  /\ c.name = g.country_name
             /\ Len(ds) = Len(g.dimension_summary)
             /\ \A k \in DOMAIN ds :
                  /\ ds[k].pillar = g.dimension_summary[k].pillar
                  /\ ds[k].value = g.dimension_summary[k].value
                  /\ ds[k].rank = g.dimension_summary[k].rank
             /\ Len(ps) = Len(g.detailed_pillars)
             /\ \A k \in DOMAIN ps :
                  LET sp == SelectSeq(store.sub_pillars, LAMBDA r : r.pillar_id = ps[k].id)
                  IN  /\ ps[k].pillar_name = g.detailed_pillars[k].pillar_name
                      /\ ps[k].total_pillar_score = g.detailed_pillars[k].total_pillar_score
                      /\ Len(sp) = Len(g.detailed_pillars[k].sub_pillars)
                      /\ \A s \in DOMAIN sp :
                           /\ sp[s].name = g.detailed_pillars[k].sub_pillars[s].name
                           /\ sp[s].score = g.detailed_pillars[k].sub_pillars[s].score

\* C6: two completed runs of convert_excel_to_json.py on the same spreadsheet
\* commit the same store, whatever the store held before the second run.
C6_ReloadIdempotent ==
  ( /\ prevRebuild.valid
    /\ lastRebuild.valid
    /\ prevRebuild.input = lastRebuild.input )
  => lastRebuild.store = prevRebuild.store

\* C6 witness: the same spreadsheet has been converted twice and the store
\* holds several countries.
C6_Witness ==
  /\ prevRebuild.valid
  /\ lastRebuild.valid
  /\ prevRebuild.input = lastRebuild.input
  /\ status = "rebuilt"
  /\ Len(store.countries) >= 2
  /\ store = prevRebuild.store

\* C7: after load_data_into_db has completed, the store holds exactly the
\* rows of the list it read: nothing of an earlier load is left.
C7_LoadReplacesStore ==
  (pc = "idle" /\ status = "loaded") =>
    LET nsub(g) == LET n[p \in 0..Len(g.detailed_pillars)] ==
                         IF p = 0 THEN 0
                         ELSE n[p - 1] + Len(g.detailed_pillars[p].sub_pillars)
                   IN  n[Len(g.detailed_pillars)]
        total[i \in 0..Len(json.data)] ==
          IF i = 0 THEN [ds |-> 0, pl |-> 0, sp |-> 0]
          ELSE [ds |-> total[i - 1].ds + Len(json.data[i].dimension_summary),
                pl |-> total[i - 1].pl + Len(json.data[i].detailed_pillars),
                sp |-> total[i - 1].sp + nsub(json.data[i])]
        all == total[Len(json.data)]
    IN  /\ Len(store.countries) <= Len(json.data)
        /\ \A n \in DOMAIN store.countries :
             \E i \in DOMAIN json.data :
               store.countries[n].name = json.data[i].country_name
        /\ Len(store.dimension_summaries) = all.ds
        /\ Len(store.pillars) = all.pl
        /\ Len(store.sub_pillars) = all.sp

\* C8: the committed store changes only when a script creates the tables and
\* at the commit that follows the loop's last country; a load that raises
\* leaves the committed store as it was, with none of the load's rows.
C8_AllOrNothing ==
  [][ /\ status' = "failed" /\ pc # "idle" => store' = store
      /\ store' # store =>
           \/ pc \in {"rebuild_open", "idle"} /\ store' = EmptyDb
           \/ /\ pc \in {"rebuild_insert", "load_insert"}
              /\ idx > Len(json.data)
              /\ status' \in {"rebuilt", "loaded"} ]_vars

\* C8 witness: a rebuild raised at its second country or later, after the
\* first country's rows had been inserted, and the store holds no row.
C8_Witness ==
  /\ status = "failed"
  /\ pc = "idle"
  /\ idx >= 2
  /\ store = EmptyDb

\* C9: after a completed load every country name of the list has exactly one
\* countries row, also when the list names a country twice or the store
\* already held the name.
C9_DuplicateNameIgnored ==
  LoadCompleted =>
    \A i \in DOMAIN json.data :
      Cardinality({n \in DOMAIN store.countries :
          store.countries[n].name = json.data[i].country_name}) = 1

\* C9 witness: a load has completed on a list in which a later graph repeats
\* the name of an earlier one.
C9_Witness ==
  /\ LoadCompleted
  /\ \E i, j \in DOMAIN json.data :
       i < j /\ json.data[i].country_name = json.data[j].country_name
  /\ \A i \in DOMAIN json.data :
       Cardinality({n \in DOMAIN store.countries :
           store.countries[n].name = json.data[i].country_name}) = 1

\* C10: every country of the Normalizer output, and every country of a
\* store loaded from it, has exactly the 9 pillars of the catalog in catalog
\* order and exactly 9 dimension summaries.
C10_NinePillarsPerCountry ==
  /\ json.exists =>
       \A i \in DOMAIN json.data :
         /\ Len(json.data[i].dimension_summary) = 9
         /\ Len(json.data[i].detailed_pillars) = 9
         /\ \A p \in 1..9 :
              json.data[i].detailed_pillars[p].pillar_name = PILLAR_STRUCTURE[p].pillar_name
  /\ LoadCompleted =>
       \A n \in DOMAIN store.countries :
         LET c  == store.countries[n]
             ds == SelectSeq(store.dimension_summaries, LAMBDA r : r.country_id = c.id)
             ps == SelectSeq(store.pillars, LAMBDA r : r.country_id = c.id)
         IN  /\ Len(ds) = 9
             /\ Len(ps) = 9
             /\ \A p \in 1..9 : ps[p].pillar_name = PILLAR_STRUCTURE[p].pillar_name

\* C11: a record whose Country cell is missing is skipped: the conversion
\* does not raise because of it, it yields no country, and the other records
\* of the batch are converted as if the record were not there.
C11_BadCountrySkipped ==
  edits = 0 =>
    LET good == [excel EXCEPT !.rows = SelectSeq(@, LAMBDA r : r.Country # "")]
    IN  /\ status = "normalize_error" =>
             \E p \in 1..NumPillars :
               RankFails(ReadExcel(good), PILLAR_STRUCTURE[p].total_col)
        /\ json.exists =>
             /\ json.data = Normalize(good)
             /\ \A e \in DOMAIN json.data : json.data[e].country_name # "nan"

\* The spreadsheet with every sub-indicator cell emptied: two spreadsheets
\* differ only in sub-indicator cells exactly when this maps them to the
\* same one.
BlankSubs(t) ==
  [t EXCEPT !.rows = [i \in DOMAIN t.rows |-> [t.rows[i] EXCEPT !.S1 = NaN, !.SX = NaN]]]

\* What C12 says the sub-indicator cells have no part in.
TotalsOf(cs) ==
  [i \in DOMAIN cs |->
     [country_name |-> cs[i].country_name,
      overall_adei_score |-> cs[i].overall_adei_score,
      overall_adei_rank |-> cs[i].overall_adei_rank,
      dimension_summary |-> cs[i].dimension_summary,
      totals |-> [p \in DOMAIN cs[i].detailed_pillars |->
                    cs[i].detailed_pillars[p].total_pillar_score]]]

\* C12: the pillar totals, DimensionSummary values, pillar ranks, ADEI
\* scores and ADEI ranks of the output are those of the spreadsheet with its
\* sub-indicator cells emptied, so spreadsheets that differ only in
\* sub-indicator cells agree on all of them (and on whether the conversion
\* completes).
C12_TotalsIgnoreSubIndicators ==
  /\ json.exists =>
       /\ ~NormalizeFails(ReadExcel(BlankSubs(source)))
       /\ TotalsOf(json.data) = TotalsOf(Normalize(BlankSubs(source)))
  /\ (status = "normalize_error" /\ edits = 0) =>
       NormalizeFails(ReadExcel(BlankSubs(excel)))

\* C12 witness: an output of several distinct countries from a spreadsheet
\* with a row whose sub-indicator cells hold scores other than the
\* pillar's total.
C12_Witness ==
  /\ json.exists
  /\ Len(json.data) >= 2
  /\ json.data[1].country_name # json.data[2].country_name
  /\ \E i \in DOMAIN source.rows :
       /\ source.rows[i].S1.k = "num"
       /\ source.rows[i].SX.k = "num"
       /\ source.rows[i].S1.v # source.rows[i].P1.v
  /\ \E e \in DOMAIN json.data :
       json.data[e].detailed_pillars[1].sub_pillars[1].score
         # json.data[e].detailed_pillars[1].total_pillar_score

\* C20: the region lists are a partition of the configured countries: a
\* configured country is in exactly one list and is never classified
\* 'Other', and a name classified into a named region is a configured
\* country.
C20_RegionsPartitionCountries ==
  reply.op = "get_country_region" =>
    LET name == reply.args[1]
        configured == {COUNTRIES[i] : i \in DOMAIN COUNTRIES}
    IN  /\ name \in configured =>
             /\ reply.value # "Other"
             /\ Cardinality({r \in DOMAIN COUNTRY_REGIONS : name \in Members(r)}) = 1
        /\ reply.value # "Other" => name \in configured

\* |a - b|
Dist(a, b) == IF a >= b THEN a - b ELSE b - a

\* The rows of the de-duplicated spreadsheet that name the country.
RawRowsOf(name) ==
  LET df == ReadExcel(source)
  IN  {df[i] : i \in {j \in DOMAIN df : Strip(df[j].Country) = name}}

\* The round trip of C13 with tolerance tolAdei (thousandths) on the ADEI
\* score and 0.01 on the rank and the pillar totals: what the profile of a
\* country returns is what a raw row of that country supplied (a cell that
\* is no number counting as 0), and a country of the spreadsheet has its
\* score, its rank and a total for each of the 9 pillars returned.
RoundTrip(tolAdei) ==
  reply.op = "get_country_profile_data" =>
    LET name == reply.args[1]
        rows == RawRowsOf(name)
        main == reply.value.main_stats
        pdf  == reply.value.pillars_df
    IN  /\ \A i \in DOMAIN main :
             \E r \in rows :
               /\ Dist(1000 * main[i].adei_score, safe_float(r.ADEI)) <= tolAdei
               /\ Dist(1000 * main[i].adei_rank, safe_float(r.Rank)) <= 10
        /\ \A i \in DOMAIN pdf :
             \E r \in rows :
               \E p \in 1..NumPillars :
                 /\ pdf[i].pillar_name = CleanPillarName(PILLAR_STRUCTURE[p].pillar_name)
                 /\ Dist(pdf[i].total_pillar_score,
                         safe_float(RowGet(r, PILLAR_STRUCTURE[p].total_col))) <= 10
        /\ rows # {} =>
             /\ main # <<>>
             /\ \A p \in 1..NumPillars :
                  \E i \in DOMAIN pdf :
                    pdf[i].pillar_name = CleanPillarName(PILLAR_STRUCTURE[p].pillar_name)

\* C13 (as stated): after Normalizer and Store Loader the profile of a
\* country gives back the raw adei_score, adei_rank and 9 pillar totals,
\* each within 0.01.
C13_RoundTripWithinHundredth == RoundTrip(10)

\* C13 (amended): the same round trip, the adei_score within 0.5 of the raw
\* ADEI (it is stored rounded to the nearest integer), the adei_rank and the
\* pillar totals within 0.01.
C13_RoundTripAdeiWithinHalf == RoundTrip(500)

\* C13 witness: a profile with a score and pillar totals, of a country whose
\* raw ADEI is not a whole number.
C13_Witness ==
  /\ reply.op = "get_country_profile_data"
  /\ reply.value.main_stats # <<>>
  /\ Len(reply.value.pillars_df) >= 9
  /\ \E r \in RawRowsOf(reply.args[1]) :
       /\ r.ADEI.k = "num"
       /\ Dist(1000 * reply.value.main_stats[1].adei_score, r.ADEI.v) > 10

\* C16: for a country with at least 2 * top_n sub-indicator rows, strengths
\* and weaknesses have top_n rows each, no row is in both, every strength
\* score is >= every weakness score, and the weaknesses are in ascending
\* score order.
C16_StrengthsWeaknesses ==
  reply.op = "get_country_strengths_weaknesses" =>
    LET name  == reply.args[1]
        top_n == reply.args[2]
        st    == reply.value.strengths
        wk    == reply.value.weaknesses
    IN  Len(SubPillarsJoin(store, {name})) >= 2 * top_n =>
          /\ Len(st) = top_n
          /\ Len(wk) = top_n
          /\ \A i \in DOMAIN st, j \in DOMAIN wk :
               /\ st[i].row # wk[j].row
               /\ st[i].score >= wk[j].score
          /\ \A i, j \in DOMAIN wk : i < j => wk[i].score <= wk[j].score
          /\ \A i, j \in DOMAIN st : i < j => st[i].row # st[j].row
          /\ \A i, j \in DOMAIN wk : i < j => wk[i].row # wk[j].row

\* C16 witness: strengths and weaknesses of a country of the store, with
\* weaknesses of different scores and a strength better than a weakness.
C16_Witness ==
  /\ reply.op = "get_country_strengths_weaknesses"
  /\ reply.args[2] = 5
  /\ Len(reply.value.strengths) = 5
  /\ Len(reply.value.weaknesses) = 5
  /\ reply.value.weaknesses[1].score < reply.value.weaknesses[5].score
  /\ reply.value.strengths[5].score > reply.value.weaknesses[5].score

\* With at least 20 countries in the store, top_10 and bottom_10 name no
\* country twice between them.
LeaderboardsDisjoint ==
  Len(store.countries) >= 20 =>
    \A i \in DOMAIN reply.value.top_10, j \in DOMAIN reply.value.bottom_10 :
      reply.value.top_10[i].name # reply.value.bottom_10[j].name

\* C15 (as stated): with at least 20 countries top_10 and bottom_10 have no
\* country in common, and bottom_10 is strictly ascending by adei_rank.
C15_BottomStrictlyAscending ==
  reply.op = "get_leaderboard_data" =>
    /\ LeaderboardsDisjoint
    /\ \A i, j \in DOMAIN reply.value.bottom_10 :
         i < j => reply.value.bottom_10[i].adei_rank < reply.value.bottom_10[j].adei_rank

\* C15 (amended): with at least 20 countries top_10 and bottom_10 have no
\* country in common, and bottom_10 is ascending by adei_rank: the rank
\* never decreases down the list, and countries that share a rank are next
\* to each other.
C15_BottomAscending ==
  reply.op = "get_leaderboard_data" =>
    /\ LeaderboardsDisjoint
    /\ \A i, j \in DOMAIN reply.value.bottom_10 :
         i < j => reply.value.bottom_10[i].adei_rank <= reply.value.bottom_10[j].adei_rank

\* C15 witness: leaderboards of 10 and 10 from a store of 20 countries or
\* more, two countries of bottom_10 sharing a rank.
C15_Witness ==
  /\ reply.op = "get_leaderboard_data"
  /\ Len(store.countries) >= 20
  /\ Len(reply.value.top_10) = 10
  /\ Len(reply.value.bottom_10) = 10
  /\ \E i, j \in DOMAIN reply.value.bottom_10 :
       i < j /\ reply.value.bottom_10[i].adei_rank = reply.value.bottom_10[j].adei_rank

\* The pillars rows of the store that belong to a country with one of the
\* names, for the pillar with the cleaned name k.
StorePillars(names, k) ==
  SelectSeq(store.pillars,
            LAMBDA p : /\ CleanPillarName(p.pillar_name) = k
                       /\ \E i \in DOMAIN store.countries :
                            /\ store.countries[i].id = p.country_id
                            /\ store.countries[i].name \in names)

\* The names in the list of the country's region.
RegionOf(name) ==
  UNION {Members(r) : r \in {q \in DOMAIN COUNTRY_REGIONS : name \in Members(q)}}

\* C17: get_peer_region_data(c) returns, for each of the 9 pillars, c's
\* scores of the pillar and one comparison row that holds the mean of the
\* pillar's scores over the other members of c's region in the store (no
\* comparison row when there is none); c's own scores are not in the mean.
C17_PeerMeanExcludesCountry ==
  reply.op = "get_peer_region_data" =>
    LET c    == reply.args[1]
        comb == reply.value.combined
    IN  \A p \in 1..NumPillars :
          LET k      == CleanPillarName(PILLAR_STRUCTURE[p].pillar_name)
              own    == StorePillars({c}, k)
              others == StorePillars(RegionOf(c) \ {c}, k)
              ownOut == SelectSeq(comb, LAMBDA r : r.pillar_name = k /\ r.group = c)
              avgOut == SelectSeq(comb, LAMBDA r : r.pillar_name = k /\ r.group # c)
          IN  /\ Len(ownOut) = Len(own)
              /\ \A i \in DOMAIN own :
                   ownOut[i].total_pillar_score = Exact(own[i].total_pillar_score)
              /\ Len(avgOut) = IF others = <<>> THEN 0 ELSE 1
              /\ others # <<>> =>
                   SameMean(avgOut[1].total_pillar_score,
                            [sum |-> SumOf(others, "total_pillar_score"),
                             count |-> Len(others)])

\* C17 witness: a country of the store compared with two or more peers of
\* its region, its own score unlike their mean.
C17_Witness ==
  /\ reply.op = "get_peer_region_data"
  /\ Len(reply.value.combined) >= 18
  /\ reply.value.combined[1].group = reply.args[1]
  /\ \E i \in DOMAIN reply.value.combined :
       /\ reply.value.combined[i].group # reply.args[1]
       /\ reply.value.combined[i].total_pillar_score.count >= 2
       /\ ~SameMean(reply.value.combined[i].total_pillar_score,
                    reply.value.combined[1].total_pillar_score)

\* C18: when c is in the store and no other member of its region is (or c
\* is in the region 'Other'), the result has, for each pillar, a comparison
\* row whose value is c's own score.
C18_FallsBackToItself ==
  reply.op = "get_peer_region_data" =>
    LET c    == reply.args[1]
        comb == reply.value.combined
    IN  ( /\ \E i \in DOMAIN store.countries : store.countries[i].name = c
          /\ ~\E i \in DOMAIN store.countries :
                store.countries[i].name \in RegionOf(c) \ {c} )
        => \A p \in 1..NumPillars :
             LET k == CleanPillarName(PILLAR_STRUCTURE[p].pillar_name)
             IN  \E i \in DOMAIN comb :
                   /\ comb[i].pillar_name = k
                   /\ comb[i].group # c
                   /\ \E j \in DOMAIN comb :
                        /\ comb[j].pillar_name = k
                        /\ comb[j].group = c
                        /\ SameMean(comb[i].total_pillar_score, comb[j].total_pillar_score)

\* C14: for a country name that is not in the store, the three frames of
\* get_country_profile_data are empty, and so are the results of
\* get_country_strengths_weaknesses and get_peer_region_data.
C14_UnknownCountryEmpty ==
  ( /\ reply.op \in {"get_country_profile_data", "get_country_strengths_weaknesses",
                     "get_peer_region_data"}
    /\ ~\E i \in DOMAIN store.countries : store.countries[i].name = reply.args[1] )
  =>
    CASE reply.op = "get_country_profile_data" ->
           /\ reply.value.main_stats = <<>>
           /\ reply.value.pillars_df = <<>>
           /\ reply.value.sub_pillars_df = <<>>
      [] reply.op = "get_country_strengths_weaknesses" ->
           /\ reply.value.strengths = <<>>
           /\ reply.value.weaknesses = <<>>
      [] reply.op = "get_peer_region_data" ->
           reply.value.combined = <<>>

\* The store's countries that the Region Classifier assigns to the region.
ScoresOfRegion(region) ==
  SelectSeq(store.countries, LAMBDA c : get_country_region(c.name) = region)

\* The regions and counts of C19: adei_avg has one row for each region
\* with a country in the store and for no other, its country_count is the
\* number of those countries, and the counts add up to the number of
\* countries in the store.
RegionCounts ==
  LET out == reply.value.adei_avg
  IN  /\ \A i, j \in DOMAIN out : i # j => out[i].region # out[j].region
      /\ \A i \in DOMAIN out :
           /\ out[i].country_count >= 1
           /\ out[i].country_count = Len(ScoresOfRegion(out[i].region))
      /\ \A n \in DOMAIN store.countries :
           \E i \in DOMAIN out : out[i].region = get_country_region(store.countries[n].name)
      /\ SumOf(out, "country_count") = Len(store.countries)

\* C19 (as stated): the regions and counts above, and avg_adei is the
\* arithmetic mean of the adei_score of the region's countries.
C19_RegionMeanExact ==
  reply.op = "get_regional_aggregation" =>
    /\ RegionCounts
    /\ \A i \in DOMAIN reply.value.adei_avg :
         LET row    == reply.value.adei_avg[i]
             scores == ScoresOfRegion(row.region)
         IN  row.avg_adei * Len(scores) = 10 * SumOf(scores, "adei_score")

\* C19 (amended): the regions and counts above, and avg_adei is that mean
\* rounded to one decimal: a multiple of 0.1 no more than 0.05 away from it.
C19_RegionMeanRounded ==
  reply.op = "get_regional_aggregation" =>
    /\ RegionCounts
    /\ \A i \in DOMAIN reply.value.adei_avg :
         LET row    == reply.value.adei_avg[i]
             scores == ScoresOfRegion(row.region)
         IN  2 * Dist(row.avg_adei * Len(scores), 10 * SumOf(scores, "adei_score"))
               <= Len(scores)

\* C19 witness: an aggregation over several regions, one of them with 6
\* countries and a mean that is no multiple of 0.1.
C19_Witness ==
  /\ reply.op = "get_regional_aggregation"
  /\ Len(reply.value.adei_avg) >= 3
  /\ \E i \in DOMAIN reply.value.adei_avg :
       LET row    == reply.value.adei_avg[i]
           scores == ScoresOfRegion(row.region)
       IN  /\ row.country_count = 6
           /\ row.avg_adei * 6 # 10 * SumOf(scores, "adei_score")

\* C21: a country of the store that is in no region list contributes to no
\* row of adei_avg and to no row of pillar_avg: neither table has a row for
\* the group that get_regional_aggregation puts the country in.
C21_UnresolvedCountryDropped ==
  reply.op = "get_regional_aggregation" =>
    \A n \in DOMAIN store.countries :
      RegionOf(store.countries[n].name) = {} =>
        LET g == get_country_region(store.countries[n].name)
        IN  /\ \A i \in DOMAIN reply.value.adei_avg :
                 reply.value.adei_avg[i].region # g
            /\ \A i \in DOMAIN reply.value.pillar_avg :
                 \A k \in DOMAIN reply.value.pillar_avg[i] :
                   reply.value.pillar_avg[i][k].region # g

\* The 9 short pillar labels in the order of the catalog.
CatalogShortNames ==
  [p \in 1..NumPillars |-> CleanPillarName(PILLAR_STRUCTURE[p].pillar_name)]

\* C22: get_rankings_explorer_data returns one row for each country of the
\* store and no other row, in non-decreasing Rank order, each with the
\* country's adei_rank and adei_score; its columns are Country, Rank, ADEI
\* Score and then the 9 pillars in catalog order, none missing.
C22_RankingsExplorerWide ==
  reply.op = "get_rankings_explorer_data" =>
    LET out == reply.value
    IN  /\ out.columns = << "Country", "Rank", "ADEI Score" >> \o CatalogShortNames
        /\ Len(out.rows) = Len(store.countries)
        /\ \A n \in DOMAIN store.countries :
             \E i \in DOMAIN out.rows :
               /\ out.rows[i]["Country"] = store.countries[n].name
               /\ out.rows[i]["Rank"] = store.countries[n].adei_rank
               /\ out.rows[i]["ADEI Score"] = store.countries[n].adei_score
        /\ \A i, j \in DOMAIN out.rows :
             i < j => out.rows[i]["Rank"] <= out.rows[j]["Rank"]
        /\ \A i \in DOMAIN out.rows :
             \A k \in DOMAIN CatalogShortNames :
               out.rows[i][CatalogShortNames[k]].count >= 1

\* C22 witness: a table of at least 17 countries whose rank order is not
\* the name order of the pivot, with tied ranks.
C22_Witness ==
  /\ reply.op = "get_rankings_explorer_data"
  /\ Len(reply.value.rows) >= 17
  /\ reply.value.rows[1]["Country"] = "United Arab Emirates"
  /\ \E i \in DOMAIN reply.value.rows :
       /\ i > 1
       /\ reply.value.rows[i]["Rank"] = reply.value.rows[i - 1]["Rank"]
       /\ reply.value.rows[i]["Country"] = "Albania"

\* C23: get_pillar_rankings(pillar) lists every country of the store that
\* has a pillars row of that name, and only rows of the store, by
\* non-increasing total_pillar_score, and the pillar_rank of the i-th row is
\* i: the ranks are 1..N without repeats or gaps, also among equal scores.
C23_PillarRankIsPosition ==
  reply.op = "get_pillar_rankings" =>
    LET out == reply.value.countries_df
        had == SelectSeq(AllPillarsJoin(store), LAMBDA p : p.pillar_name = reply.args[1])
    IN  /\ Len(out) = Len(had)
        /\ \A n \in DOMAIN had :
             \E i \in DOMAIN out :
               /\ out[i].name = CountryById(store, had[n].country_id).name
               /\ out[i].total_pillar_score = had[n].total_pillar_score
        /\ \A i, j \in DOMAIN out :
             i < j => out[i].total_pillar_score >= out[j].total_pillar_score
        /\ \A i \in DOMAIN out : out[i].pillar_rank = i
        /\ {out[i].pillar_rank : i \in DOMAIN out} = 1..Len(out)

\* C23 witness: a ranking of two different countries with equal scores.
C23_Witness ==
  /\ reply.op = "get_pillar_rankings"
  /\ Len(reply.value.countries_df) = 2
  /\ reply.value.countries_df[1].name # reply.value.countries_df[2].name
  /\ reply.value.countries_df[1].total_pillar_score
       = reply.value.countries_df[2].total_pillar_score
  /\ reply.value.countries_df[2].pillar_rank = 2

\* The 9 stored pillar labels in the order of the catalog.
CatalogNames == [p \in 1..NumPillars |-> PILLAR_STRUCTURE[p].pillar_name]

\* C24: the operations that return one row per pillar return the pillars in
\* catalog order, First to Ninth: get_average_pillar_scores and
\* get_oic_aggregate_stats by their short labels, get_all_pillar_names by
\* the labels it returns.
C24_PillarsInCatalogOrder ==
  /\ reply.op = "get_average_pillar_scores" =>
       [i \in DOMAIN reply.value |-> reply.value[i].pillar_name] = CatalogShortNames
  /\ reply.op = "get_oic_aggregate_stats" =>
       [i \in DOMAIN reply.value |-> reply.value[i].pillar_name] = CatalogShortNames
  /\ reply.op = "get_all_pillar_names" => reply.value = CatalogNames

\* The ordinal words of the stored labels (order, line 168).
Ordinals ==
  << "First", "Second", "Third", "Fourth", "Fifth", "Sixth", "Seventh",
     "Eighth", "Ninth" >>

\* The pillar labels in the last reply.
ReturnedLabels ==
  LET v == reply.value
      Col(df) == {df[i].pillar_name : i \in DOMAIN df}
  IN  CASE reply.op = "get_country_profile_data" -> Col(v.pillars_df) \cup Col(v.sub_pillars_df)
        [] reply.op = "get_country_strengths_weaknesses" -> Col(v.strengths) \cup Col(v.weaknesses)
        [] reply.op = "get_peer_region_data" -> Col(v.combined)
        [] reply.op = "get_regional_aggregation" ->
             UNION {Col(v.pillar_avg[g]) : g \in DOMAIN v.pillar_avg}
        [] reply.op = "get_rankings_explorer_data" ->
             {v.columns[k] : k \in DOMAIN v.columns} \ {"Country", "Rank", "ADEI Score"}
        [] reply.op = "get_average_pillar_scores" -> Col(v)
        [] reply.op = "get_oic_aggregate_stats" -> Col(v)
        [] reply.op = "get_pillar_correlation_matrix" -> {v.labels[k] : k \in DOMAIN v.labels}
        [] reply.op = "get_all_pillar_names" -> {v[k] : k \in DOMAIN v}
        [] OTHER -> {}

\* The label is what is left of a pillar label of the store when its
\* ordinal prefix is taken away.
IsCleaned(label) ==
  \E i \in DOMAIN store.pillars :
    \E p \in DOMAIN Ordinals :
      store.pillars[i].pillar_name = Ordinals[p] \o " Pillar: " \o label

\* The cleaning gives the 9 labels of the catalog 9 different short labels.
CleaningIsInjective ==
  Cardinality({CatalogShortNames[p] : p \in 1..NumPillars}) = NumPillars

\* C25 (as stated): every pillar label an operation returns is a stored
\* label without its ordinal prefix, whatever the operation, and the 9
\* catalog labels have 9 different short labels.
C25_EveryLabelCleaned ==
  /\ CleaningIsInjective
  /\ \A label \in ReturnedLabels : IsCleaned(label)

\* C25 (amended): the same for every operation but get_all_pillar_names,
\* which returns the labels as they are stored.
C25_LabelsCleanedButAllPillarNames ==
  /\ CleaningIsInjective
  /\ reply.op # "get_all_pillar_names" => \A label \in ReturnedLabels : IsCleaned(label)
  /\ reply.op = "get_all_pillar_names" =>
       ReturnedLabels = {store.pillars[i].pillar_name : i \in DOMAIN store.pillars}

\* C25 witness: a country profile whose two frames carry the 9 short labels.
C25_Witness ==
  /\ reply.op = "get_country_profile_data"
  /\ reply.value.sub_pillars_df # <<>>
  /\ Cardinality(ReturnedLabels) = NumPillars
  /\ "Institutions" \in ReturnedLabels

\* The loop's insertions may follow one another in this way only: a
\* countries row opens a later iteration; a dimension_summaries row
\* follows the iteration's countries row, whose id it carries, or another
\* summary of the iteration, or opens the iteration when the country
\* insert was ignored; a pillars row follows the iteration's countries
\* row, summaries, or an earlier pillar with its sub-pillars; a sub_pillars
\* row follows its own pillars row or a sub_pillars row of the same pillar.
MayFollow(prev, cur) ==
  CASE cur.table = "countries" ->
         /\ cur.iter > prev.iter
    [] cur.table = "dimension_summaries" ->
         \/ /\ prev.table = "countries"
            /\ prev.iter = cur.iter
            /\ prev.id = cur.parent
         \/ /\ prev.table = "dimension_summaries"
            /\ prev.iter = cur.iter
            /\ prev.parent = cur.parent
         \/ /\ prev.table # "countries"
            /\ prev.iter < cur.iter
    [] cur.table = "pillars" ->
         /\ prev.iter = cur.iter
         /\ prev.table = "countries" => prev.id = cur.parent
         /\ prev.table = "dimension_summaries" => prev.parent = cur.parent
         /\ prev.table = "pillars" => prev.parent = cur.parent
    [] cur.table = "sub_pillars" ->
         /\ prev.iter = cur.iter
         /\ \/ prev.table = "pillars" /\ prev.id = cur.parent
            \/ prev.table = "sub_pillars" /\ prev.parent = cur.parent

\* C26: at every point of a load the rows inserted so far came in the
\* order of the claim: in each iteration the countries row first, then all
\* the dimension_summaries rows, then the pillars rows, each followed at
\* once by its own sub_pillars rows.
C26_InsertionOrder ==
  /\ conn.log # <<>> => conn.log[1].table \in {"countries", "dimension_summaries"}
  /\ \A j \in 2..Len(conn.log) : MayFollow(conn.log[j - 1], conn.log[j])

\* C26 witness: a load in its second iteration, whose country insert was
\* ignored, with summaries, pillars and sub-pillars inserted in both.
C26_Witness ==
  /\ pc = "load_insert"
  /\ conn.iter = 2
  /\ Cardinality({j \in DOMAIN conn.log : conn.log[j].table = "countries"}) = 1
  /\ \E j \in DOMAIN conn.log : conn.log[j].table = "sub_pillars" /\ conn.log[j].iter = 2
  /\ \E j \in DOMAIN conn.log : conn.log[j].table = "dimension_summaries" /\ conn.log[j].iter = 2

\* C27: no failure on one country ends the run: run_extraction never stops
\* on an exception, and what it saves at the end is the list of the
\* results extracted.
C27_FailureSkipped ==
  /\ extraction.pc # "raised"
  /\ extraction.pc = "done" =>
       /\ extraction.saved
       /\ extraction.file = extraction.all_countries_data

\* The section of the claim: the chunks from the first that mentions the
\* i-th country up to, not including, the first later chunk that mentions
\* the next country; all the chunks from the first for the last country.
ClaimedSection(all_chunks, i) ==
  LET hits == {k \in DOMAIN all_chunks : Mentions(all_chunks[k], COUNTRIES[i])}
  IN  IF hits = {} THEN <<>>
      ELSE LET first == SetMin(hits)
               ends  == {k \in DOMAIN all_chunks :
                           /\ k > first
                           /\ i < Len(COUNTRIES)
                           /\ Mentions(all_chunks[k], COUNTRIES[i + 1])}
               last  == IF ends = {} THEN Len(all_chunks) ELSE SetMin(ends) - 1
           IN  [j \in 1..(last - first + 1) |-> first + j - 1]

\* C28: the section collected for a country is the section of the claim; a
\* country that some chunk mentions gets a section that is not empty.
C28_SectionBetweenMentions ==
  extraction.pc \in {"chain", "no_content"} =>
    extraction.country_chunks = ClaimedSection(extraction.all_chunks, extraction.i)

\* C29: after a completed rebuild every dimension_summaries row and every
\* pillars row carries the id of a countries row whose name is the name of
\* the graph the row was inserted for (the k-th graph of the list owns the
\* k-th group of 9 rows of each table), also when the list repeats a name.
C29_ChildrenReferToTheirCountry ==
  (status = "rebuilt" /\ pc = "idle") =>
    LET Owner(r) == json.data[((r - 1) \div NumPillars) + 1].country_name
        Refers(id, name) ==
          \E n \in DOMAIN store.countries :
            /\ store.countries[n].id = id
            /\ store.countries[n].name = name
    IN  /\ \A d \in DOMAIN store.dimension_summaries :
             Refers(store.dimension_summaries[d].country_id, Owner(d))
        /\ \A p \in DOMAIN store.pillars :
             Refers(store.pillars[p].country_id, Owner(p))

\* The number of sub-pillars the catalog gives to the pillar of the name.
SubPillarCount(pillar_name) ==
  Len(PILLAR_STRUCTURE[CHOOSE p \in 1..NumPillars :
                         PILLAR_STRUCTURE[p].pillar_name = pillar_name].sub_cols)

\* C30: what a reader sees while a load is inside its loop holds no country
\* without its 9 dimension summaries, its 9 pillars and the sub-pillars of
\* each of them, and of the countries of the list being loaded it holds
\* either none or all.
C30_ReaderSeesWholeLoads ==
  reply.op = "read" =>
    LET seen  == reply.value
        names == {json.data[i].country_name : i \in DOMAIN json.data}
        found == {seen.countries[n].name : n \in DOMAIN seen.countries} \cap names
    IN  /\ found = {} \/ found = names
        /\ \A n \in DOMAIN seen.countries :
             LET id == seen.countries[n].id
                 ds == SelectSeq(seen.dimension_summaries, LAMBDA r : r.country_id = id)
                 ps == SelectSeq(seen.pillars, LAMBDA r : r.country_id = id)
             IN  /\ Len(ds) >= NumPillars
                 /\ Len(ps) >= NumPillars
                 /\ \A k \in DOMAIN ps :
                      Cardinality({s \in DOMAIN seen.sub_pillars :
                                     seen.sub_pillars[s].pillar_id = ps[k].id})
                        = SubPillarCount(ps[k].pillar_name)

\* C30 witness: a read during a load of several countries, after the first
\* of them was inserted and before the commit.
C30_Witness ==
  /\ reply.op = "read"
  /\ pc \in {"rebuild_insert", "load_insert"}
  /\ Len(json.data) >= 2
  /\ idx = 2
  /\ Len(conn.db.countries) > Len(store.countries)
====
